---- MODULE Spec2Model ----
(***************************************************************************)
(* A model of the LLVM bitstream reader: the bit cursor (src/src/bits.rs)  *)
(* and the record field iterator (src/src/bitcode.rs).                     *)
(*                                                                         *)
(* Representation of machine integers:                                     *)
(*  - a u64 is the set of the positions (0..63) of its one bits, so that   *)
(*    shifts lose the bits they push beyond bit 63 exactly as the machine  *)
(*    does and no value exceeds the model checker's integers;              *)
(*  - a byte of a buffer is a number 0..255;                               *)
(*  - a usize that is a count of bytes is a number; a negative number -k   *)
(*    stands for 2^64 - k, so that wrapping addition is plain addition.    *)
(***************************************************************************)
EXTENDS Integers, Sequences, FiniteSets, TLC

VARIABLES
    input,            \* the byte slice given to Cursor::new
    cur,              \* the cursor made by Cursor::new
    sub,              \* the cursor returned by take_slice, while it is alive
    last,             \* the last call made: operation, argument, result, cursor before
    overflow_checks,  \* the build: TRUE panics on arithmetic overflow, FALSE wraps
    vbr,              \* what the input holds when it was written as a VBR chain
    rec,              \* what the input holds when it was written as a record
    it,               \* the RecordIter made on the cursor, and what was called on it
    rd                \* the BitStreamReader of one Bitcode::read, and its visitor

\* what no call changes
env == <<input, overflow_checks, vbr, rec>>

vars == <<cur, sub, it, last, rd, env>>

-----------------------------------------------------------------------------
(* Bounds and program constants *)

MaxLen == 9

MaxSliceLen == 6

MaxValueBit == 66

MaxWidth1Chunks == 3

MaxPayloadLen == 2

MaxOps == 2

\* the bytes cut from the end of the input of a record
MaxCut == 2

MaxReadBits == 64

MaxChunkSize == 32

UsizeMax == -1

-----------------------------------------------------------------------------
(* Machine integers *)

RECURSIVE Pow2(_)
Pow2(n) == IF n = 0 THEN 1 ELSE 2 * Pow2(n - 1)

\* u64::from(byte)
ByteBits(b) == {i \in 0..7 : (b \div Pow2(i)) % 2 = 1}

\* value << k on u64, for k < 64
Shl(s, k) == {i + k : i \in s} \cap (0..63)

\* value >> k on u64
Shr(s, k) == {i - k : i \in {j \in s : j >= k}}

\* (1 << k) - 1
LowMask(k) == 0..(k - 1)

\* value as u8
RECURSIVE BitsToNat(_)
BitsToNat(s) ==
    IF s = {} THEN 0
    ELSE LET i == CHOOSE j \in s : TRUE IN Pow2(i) + BitsToNat(s \ {i})

AsU8(s) == BitsToNat(s \cap (0..7))

-----------------------------------------------------------------------------
(* Results: Ok(val) / Ok(bytes) / Err(err) / a panic, with the cursor after *)

Ok(v, c)       == [ok |-> TRUE,  err |-> "",  val |-> v,  bytes |-> <<>>, c |-> c]
OkBytes(bs, c) == [ok |-> TRUE,  err |-> "",  val |-> {}, bytes |-> bs,   c |-> c]
Err(e, c)      == [ok |-> FALSE, err |-> e,   val |-> {}, bytes |-> <<>>, c |-> c]
Panic(c)       == Err("panic", c)

-----------------------------------------------------------------------------
(* Cursor, src/src/bits.rs *)

Cursor_new(buffer) == [buffer |-> buffer, offset |-> 0]

is_at_end(c) == c.offset >= Len(c.buffer) * 8

unconsumed_bit_len(c) == Len(c.buffer) * 8 - c.offset

\* the loop of read_bits: for i in (lo..hi).rev() { res <<= 8; res |= buffer.get(i)? }
\* done is TRUE when a get failed
RECURSIVE read_bits_loop(_, _, _, _)
read_bits_loop(buffer, lo, i, res) ==
    IF i < lo THEN [none |-> FALSE, res |-> res]
    ELSE IF i >= Len(buffer) THEN [none |-> TRUE, res |-> {}]
    ELSE read_bits_loop(buffer, lo, i - 1, Shl(res, 8) \cup ByteBits(buffer[i + 1]))

\* the value of a set of one value: Only({e(x) : x \in {v}}) is e(v), a let
\* binding of x to v
Only(S) == CHOOSE x \in S : TRUE

\* res >>= offset & 7 after the loop of read_bits
read_bits_shift(c, l) ==
    IF l.none THEN l
    ELSE [none |-> FALSE,
          res |-> IF c.offset % 8 # 0 THEN Shr(l.res, c.offset % 8) ELSE l.res]

\* read_bits from let top_byte_index on
read_bits_to(c, upper_bound) ==
    IF upper_bound % 8 # 0 /\ upper_bound \div 8 >= Len(c.buffer)
    THEN [none |-> TRUE, res |-> {}]
    ELSE read_bits_shift(c,
             read_bits_loop(c.buffer, c.offset \div 8, (upper_bound \div 8) - 1,
                 IF upper_bound % 8 # 0
                 THEN ByteBits(c.buffer[(upper_bound \div 8) + 1])
                          \cap LowMask(upper_bound % 8)
                 ELSE {}))

read_bits(c, count) == read_bits_to(c, c.offset + count)

peek(c, bits) ==
    Only({ IF r.none THEN Err("BufferOverflow", c) ELSE Ok(r.res, c) :
           r \in {read_bits(c, bits)} })

\* read, had it moved the cursor before it checked that the bits are there
read_moving_first(c, bits) ==
    IF bits < 1 \/ bits > MaxReadBits THEN Err("VbrOverflow", c)
    ELSE LET r == peek(c, bits)
             moved == [c EXCEPT !.offset = c.offset + bits]
         IN  IF ~r.ok THEN Err(r.err, moved) ELSE Ok(r.val, moved)

read(c, bits) ==
    IF bits < 1 \/ bits > MaxReadBits THEN Err("VbrOverflow", c)
    ELSE Only({ IF ~r.ok THEN r
                ELSE Ok(r.val, [c EXCEPT !.offset = c.offset + bits]) :
                r \in {peek(c, bits)} })

\* the wrapping sum of a byte index and a count of bytes overflowed usize
AddOverflows(a, b) == b < 0 /\ a + b >= 0

read_bytes(c, length_bytes, checks) ==
    IF c.offset % 8 # 0 THEN Err("Alignment", c)
    ELSE LET byte_start == c.offset \div 8
             byte_end == byte_start + length_bytes
         IN  IF AddOverflows(byte_start, length_bytes) /\ checks THEN Panic(c)
             \* buffer.get(byte_start..byte_end): None when the range is reversed
             \* or ends beyond the buffer (a negative byte_end is near 2^64)
             ELSE IF byte_end < byte_start \/ byte_end > Len(c.buffer)
                  THEN Err("BufferOverflow", c)
                  ELSE OkBytes(SubSeq(c.buffer, byte_start + 1, byte_end),
                               [c EXCEPT !.offset = byte_end * 8])

\* skip_bytes, had it checked the range and left the offset where it was
skip_bytes_in_place(c, count, checks) ==
    IF c.offset % 8 # 0 THEN Err("Alignment", c)
    ELSE LET byte_end == (c.offset \div 8) + count
         IN  IF AddOverflows(c.offset \div 8, count) /\ checks THEN Panic(c)
             ELSE IF byte_end < 0 \/ byte_end > Len(c.buffer)
                  THEN Err("BufferOverflow", c)
                  ELSE Ok({}, c)

\* skip_bytes, had it not compared byte_end with the length of the buffer
skip_bytes_past_end(c, count, checks) ==
    IF c.offset % 8 # 0 THEN Err("Alignment", c)
    ELSE LET byte_end == (c.offset \div 8) + count
         IN  IF AddOverflows(c.offset \div 8, count) /\ checks THEN Panic(c)
             ELSE IF byte_end < 0
                  THEN Err("BufferOverflow", c)
                  ELSE Ok({}, [c EXCEPT !.offset = byte_end * 8])

skip_bytes(c, count, checks) ==
    IF c.offset % 8 # 0 THEN Err("Alignment", c)
    ELSE LET byte_end == (c.offset \div 8) + count
         IN  IF AddOverflows(c.offset \div 8, count) /\ checks THEN Panic(c)
             ELSE IF byte_end < 0 \/ byte_end > Len(c.buffer)
                  THEN Err("BufferOverflow", c)
                  ELSE Ok({}, [c EXCEPT !.offset = byte_end * 8])

\* take_slice, had it given the sub-cursor all the bytes that remain
take_slice_to_end(c, length_bytes, checks) ==
    IF c.offset % 32 # 0 THEN Err("Alignment", c)
    ELSE LET r == read_bytes(c, length_bytes, checks)
         IN  IF r.ok THEN OkBytes(SubSeq(c.buffer, (c.offset \div 8) + 1, Len(c.buffer)), r.c)
             ELSE r

\* the sub-cursor is Cursor_new(result.bytes)
take_slice(c, length_bytes, checks) ==
    IF c.offset % 32 # 0 THEN Err("Alignment", c)
    ELSE read_bytes(c, length_bytes, checks)

\* Iteration i (from 0) of the loop of read_vbr reads chunk i, which starts i * width
\* bits after the position read_vbr was called at
vbr_next(c, width, i) == read([c EXCEPT !.offset = c.offset + i * width], width)

\* How iteration i leaves the loop ("" when iteration i + 1 follows it); the u8
\* offset of iteration i is i * (width - 1)
vbr_exit(c, width, i, checks) ==
    Only({ IF ~next.ok THEN next.err
           ELSE IF i * (width - 1) >= 64 /\ checks THEN "panic"
           ELSE IF i * (width - 1) + (width - 1) > 63 + width THEN "VbrOverflow"
           ELSE IF (width - 1) \notin next.val THEN "break"
           ELSE "" :
           next \in {vbr_next(c, width, i)} })

\* res |= (next & mask) << offset in iteration i; a shift of 64 or more that does
\* not panic uses the low six bits of the amount
\* the accumulation, had it kept the chunk's high bit with the value
vbr_accumulate_with_high_bit(c, width, i) ==
    Shl(vbr_next(c, width, i).val, (i * (width - 1)) % 64)

vbr_accumulate(c, width, i) ==
    Shl(vbr_next(c, width, i).val \cap LowMask(width - 1), (i * (width - 1)) % 64)

\* the iterations of the loop of read_vbr that leave it, with how they leave it
vbr_exits(c, width, checks) ==
    { e \in { <<i, vbr_exit(c, width, i, checks)>> :
                 i \in 0..(unconsumed_bit_len(c) \div width) } : e[2] # "" }

\* the loop of read_vbr leaves in iteration n; a chunk of a width in 1..32 that
\* cannot be read is a BufferOverflow, and the cursor has not moved over it
vbr_leave(c, width, n, how) ==
    IF how = "break"
    THEN Ok(UNION {vbr_accumulate(c, width, i) : i \in 0..n},
            [c EXCEPT !.offset = c.offset + (n + 1) * width])
    ELSE Err(how, [c EXCEPT !.offset = c.offset
                      + (IF how = "BufferOverflow" THEN n ELSE n + 1) * width])

read_vbr(c, width, checks) ==
    IF width < 1 \/ width > MaxChunkSize THEN Err("VbrOverflow", c)
    ELSE Only({ Only({ vbr_leave(c, width, e[1], e[2]) :
                       e \in {x \in exits : \A y \in exits : x[1] <= y[1]} }) :
                exits \in {vbr_exits(c, width, checks)} })

\* align32, had it rounded an aligned position up to the next boundary as well
align32_always_up(c) ==
    LET new_offset == ((c.offset + 32) \div 32) * 32
    IN  IF new_offset \div 8 > Len(c.buffer) THEN Err("BufferOverflow", c)
        ELSE Ok({}, [buffer |-> SubSeq(c.buffer, (new_offset \div 8) + 1, Len(c.buffer)),
                     offset |-> 0])

align32(c) ==
    LET new_offset == IF c.offset % 32 = 0 THEN c.offset
                      ELSE ((c.offset + 32) \div 32) * 32
    IN  IF new_offset \div 8 > Len(c.buffer) THEN Err("BufferOverflow", c)
        ELSE Ok({}, [buffer |-> SubSeq(c.buffer, (new_offset \div 8) + 1, Len(c.buffer)),
                     offset |-> 0])

-----------------------------------------------------------------------------
(* Abbreviation operands, as src/src/bitcode.rs uses them *)

Literal(value) == [k |-> "Literal", w |-> 0, v |-> value]
Fixed(width)   == [k |-> "Fixed",   w |-> width, v |-> {}]
Vbr(width)     == [k |-> "Vbr",     w |-> width, v |-> {}]
Char6          == [k |-> "Char6",   w |-> 0, v |-> {}]

\* Option<PayloadOperand> and Option<Operand>
NoOperand  == [k |-> "None"]
Blob       == [k |-> "Blob"]
Array(el)  == [k |-> "Array", el |-> el]

Abbreviation(fields, payload) == [fields |-> fields, payload |-> payload]

\* Ops::Abbrev { state, abbrev } and Ops::Full(num_ops)
OpsAbbrev(state, abbrev) == [k |-> "Abbrev", state |-> state, abbrev |-> abbrev]
OpsFull(num_ops)         == [k |-> "Full", num_ops |-> num_ops]

\* a u64 taken as a usize length: a number when it is below 2^20; beyond, 2^20
\* stands for every length that no buffer of the model holds
HugeLen == 1048576

AsUsize(val) == IF val \subseteq 0..19 THEN BitsToNat(val) ELSE HugeLen

-----------------------------------------------------------------------------
(* Results of the iterator: Ok(out) / Err(err(operand)), with the cursor and *)
(* the Ops after the call                                                    *)

IterOk(out, c, ops) ==
    [ok |-> TRUE, err |-> "", operand |-> NoOperand, out |-> out, c |-> c, ops |-> ops]

IterErr(e, operand, c, ops) ==
    [ok |-> FALSE, err |-> e, operand |-> operand, out |-> <<>>, c |-> c, ops |-> ops]

\* Option<u64>
Some(val) == [some |-> TRUE, val |-> val]
None      == [some |-> FALSE, val |-> {}]

-----------------------------------------------------------------------------
(* RecordIter, src/src/bitcode.rs *)

\* the character of a 6-bit value; -1 where the match has no character
char6(value) ==
    IF value <= 25 THEN value + 97
    ELSE IF value <= 51 THEN value + (65 - 26)
    ELSE IF value <= 61 THEN value - (52 - 48)
    ELSE IF value = 62 THEN 46
    ELSE IF value = 63 THEN 95
    ELSE -1

read_scalar_operand(c, operand, checks) ==
    CASE operand.k = "Char6" ->
            LET r == read(c, 6)
                ch == char6(AsU8(r.val))
            IN  IF ~r.ok THEN r
                ELSE IF ch < 0 THEN Err("InvalidAbbrev", r.c)
                ELSE Ok(ByteBits(ch), r.c)
      [] operand.k = "Literal" -> Ok(operand.v, c)
      [] operand.k = "Fixed" -> read(c, operand.w)
      [] operand.k = "Vbr" -> read_vbr(c, operand.w, checks)

\* out is the record code
from_cursor_abbrev(c, abbrev, checks) ==
    IF Len(abbrev.fields) = 0
    THEN IterErr("InvalidAbbrev", NoOperand, c, OpsAbbrev(0, abbrev))
    ELSE Only({
        IF r.ok THEN IterOk(r.val, r.c, OpsAbbrev(1, abbrev))
        ELSE IterErr(r.err, NoOperand, r.c, OpsAbbrev(0, abbrev)) :
        r \in {read_scalar_operand(c, abbrev.fields[1], checks)}})

\* from_cursor, had it read the number of fields before the record code
from_cursor_count_first(c, checks) ==
    Only({
        IF ~num_ops.ok THEN IterErr(num_ops.err, NoOperand, num_ops.c, OpsFull(0))
        ELSE Only({
            IF ~id.ok THEN IterErr(id.err, NoOperand, id.c, OpsFull(0))
            ELSE IterOk(id.val, id.c, OpsFull(AsUsize(num_ops.val))) :
            id \in {read_vbr(num_ops.c, 6, checks)}}) :
        num_ops \in {read_vbr(c, 6, checks)}})

from_cursor(c, checks) ==
    Only({
        IF ~id.ok THEN IterErr(id.err, NoOperand, id.c, OpsFull(0))
        ELSE Only({
            IF ~num_ops.ok THEN IterErr(num_ops.err, NoOperand, num_ops.c, OpsFull(0))
            ELSE IterOk(id.val, num_ops.c, OpsFull(AsUsize(num_ops.val))) :
            num_ops \in {read_vbr(id.c, 6, checks)}}) :
        id \in {read_vbr(c, 6, checks)}})

next(c, ops, checks) ==
    IF ops.k = "Abbrev"
    THEN IF ops.state >= Len(ops.abbrev.fields) THEN IterOk(None, c, ops)
         ELSE Only({
            IF r.ok THEN IterOk(Some(r.val), r.c, [ops EXCEPT !.state = ops.state + 1])
            ELSE IterErr(r.err, NoOperand, r.c, [ops EXCEPT !.state = ops.state + 1]) :
            r \in {read_scalar_operand(c, ops.abbrev.fields[ops.state + 1], checks)}})
    ELSE IF ops.num_ops = 0 THEN IterOk(None, c, ops)
         ELSE Only({
            IF r.ok THEN IterOk(Some(r.val), r.c, OpsFull(ops.num_ops - 1))
            ELSE IterErr(r.err, NoOperand, r.c, OpsFull(ops.num_ops - 1)) :
            r \in {read_vbr(c, 6, checks)}})

\* self.next()?.ok_or(Error::EndOfRecord)
u64(c, ops, checks) ==
    Only({
        IF ~r.ok THEN r
        ELSE IF ~r.out.some THEN IterErr("EndOfRecord", NoOperand, r.c, r.ops)
        ELSE IterOk(r.out.val, r.c, r.ops) :
        r \in {next(c, ops, checks)}})

\* -x on an i64 of 64 bits in two's complement: !x + 1
wrapping_neg(x) ==
    LET inverted == (0..63) \ x
    IN  IF inverted = 0..63 THEN {}
        ELSE LET k == CHOOSE i \in 0..63 :
                        i \notin inverted /\ \A j \in 0..(i - 1) : j \in inverted
             IN  (inverted \ (0..k)) \cup {k}

\* -x overflows for i64::MIN only
NegOverflows(x) == x = {63}

\* i64(), had it no arm for v == 1
i64_without_min(c, ops, checks) ==
    Only({
        IF ~v.ok THEN v
        ELSE Only({
            IF 0 \notin v.out THEN IterOk(shifted, v.c, v.ops)
            ELSE IF NegOverflows(shifted) /\ checks
                 THEN IterErr("panic", NoOperand, v.c, v.ops)
                 ELSE IterOk(wrapping_neg(shifted), v.c, v.ops) :
            shifted \in {Shr(v.out, 1)}}) :
        v \in {u64(c, ops, checks)}})

\* out is the i64 as its 64 bits in two's complement
i64(c, ops, checks) ==
    Only({
        IF ~v.ok THEN v
        ELSE Only({
            IF 0 \notin v.out THEN IterOk(shifted, v.c, v.ops)
            ELSE IF v.out # {0}
            THEN IF NegOverflows(shifted) /\ checks
                 THEN IterErr("panic", NoOperand, v.c, v.ops)
                 ELSE IterOk(wrapping_neg(shifted), v.c, v.ops)
            ELSE IterOk(Shl({0}, 63), v.c, v.ops) :
            shifted \in {Shr(v.out, 1)}}) :
        v \in {u64(c, ops, checks)}})

\* u64::try_into a type of `bits` bits, had it truncated the value
try_into_truncating(c, ops, checks, bits) ==
    Only({
        IF ~v.ok THEN v ELSE IterOk(v.out \cap (0..(bits - 1)), v.c, v.ops) :
        v \in {u64(c, ops, checks)}})

\* self.u64()?.try_into().map_err(|_| Error::ValueOverflow), into an unsigned
\* type of `bits` bits
try_into(c, ops, checks, bits) ==
    Only({
        IF ~v.ok THEN v
        ELSE IF ~(v.out \subseteq 0..(bits - 1))
        THEN IterErr("ValueOverflow", NoOperand, v.c, v.ops)
        ELSE IterOk(v.out, v.c, v.ops) :
        v \in {u64(c, ops, checks)}})

u32(c, ops, checks) == try_into(c, ops, checks, 32)

u8(c, ops, checks) == try_into(c, ops, checks, 8)

bool(c, ops, checks) ==
    Only({
        IF ~v.ok THEN v
        ELSE IF v.out = {} THEN IterOk(FALSE, v.c, v.ops)
        ELSE IF v.out = {0} THEN IterOk(TRUE, v.c, v.ops)
        ELSE IterErr("ValueOverflow", NoOperand, v.c, v.ops) :
        v \in {u64(c, ops, checks)}})

\* take_payload_operand, had it not marked the payload as read
take_payload_operand_not_marking(ops) ==
    IF ops.state = Len(ops.abbrev.fields)
    THEN [ok |-> TRUE, operand |-> ops.abbrev.payload, ops |-> ops]
    ELSE [ok |-> FALSE, ops |-> ops,
          operand |-> IF ops.state < Len(ops.abbrev.fields)
                      THEN ops.abbrev.fields[ops.state + 1] ELSE NoOperand]

\* Ok(operand) with the state moved past the payload, or Err(UnexpectedOperand(operand))
take_payload_operand(ops) ==
    IF ops.state = Len(ops.abbrev.fields)
    THEN [ok |-> TRUE, operand |-> ops.abbrev.payload,
          ops |-> IF ops.abbrev.payload.k # "None"
                  THEN [ops EXCEPT !.state = ops.state + 1] ELSE ops]
    ELSE [ok |-> FALSE, ops |-> ops,
          operand |-> IF ops.state < Len(ops.abbrev.fields)
                      THEN ops.abbrev.fields[ops.state + 1] ELSE NoOperand]

\* the arm Some(PayloadOperand::Blob) of blob(), had it left the cursor at the
\* end of the bytes
blob_payload_unpadded(c, ops, checks) ==
    Only({
        IF ~length.ok THEN IterErr(length.err, NoOperand, length.c, ops)
        ELSE Only({
            IF ~aligned.ok THEN IterErr(aligned.err, NoOperand, aligned.c, ops)
            ELSE Only({
                IF ~data.ok THEN IterErr(data.err, NoOperand, data.c, ops)
                ELSE IterOk(data.bytes, data.c, ops) :
                data \in {read_bytes(aligned.c, AsUsize(length.val), checks)}}) :
            aligned \in {align32(length.c)}}) :
        length \in {read_vbr(c, 6, checks)}})

\* the arm Some(PayloadOperand::Blob) of blob(): the length, the padding, the
\* bytes, the padding
blob_payload(c, ops, checks) ==
    Only({
        IF ~length.ok THEN IterErr(length.err, NoOperand, length.c, ops)
        ELSE Only({
            IF ~aligned.ok THEN IterErr(aligned.err, NoOperand, aligned.c, ops)
            ELSE Only({
                IF ~data.ok THEN IterErr(data.err, NoOperand, data.c, ops)
                ELSE Only({
                    IF ~padded.ok THEN IterErr(padded.err, NoOperand, padded.c, ops)
                    ELSE IterOk(data.bytes, padded.c, ops) :
                    padded \in {align32(data.c)}}) :
                data \in {read_bytes(aligned.c, AsUsize(length.val), checks)}}) :
            aligned \in {align32(length.c)}}) :
        length \in {read_vbr(c, 6, checks)}})

\* blob(), had a call made before the last field skipped the fields left
blob_skipping_fields(c, ops, checks) ==
    IF ops.k = "Abbrev"
    THEN Only({
            IF ~t.ok THEN IterErr("UnexpectedOperand", t.operand, c,
                                  [ops EXCEPT !.state = Len(ops.abbrev.fields)])
            ELSE IF t.operand.k = "Blob" THEN blob_payload(c, t.ops, checks)
            ELSE IterErr("UnexpectedOperand", t.operand, c, t.ops) :
            t \in {take_payload_operand(ops)}})
    ELSE IterErr("UnexpectedOperand", NoOperand, c, ops)

blob(c, ops, checks) ==
    IF ops.k = "Abbrev"
    THEN Only({
            IF ~t.ok THEN IterErr("UnexpectedOperand", t.operand, c, ops)
            ELSE IF t.operand.k = "Blob" THEN blob_payload(c, t.ops, checks)
            ELSE IterErr("UnexpectedOperand", t.operand, c, t.ops) :
            t \in {take_payload_operand(ops)}})
    ELSE IterErr("UnexpectedOperand", NoOperand, c, ops)

\* the loop of array(): len operands of one kind (kind "Full": 6-bit VBR values)
RECURSIVE array_loop(_, _, _, _, _, _)
array_loop(c, op, len, out, ops, checks) ==
    IF len = 0 THEN IterOk(out, c, ops)
    ELSE Only({
        IF ~r.ok THEN IterErr(r.err, NoOperand, r.c, ops)
        ELSE Only({array_loop(r.c, op, len - 1, pushed, ops, checks) :
                    pushed \in {Append(out, r.val)}}) :
        r \in {IF op.k = "Full" THEN read_vbr(c, 6, checks)
               ELSE read_scalar_operand(c, op, checks)}})

array(c, ops, checks) ==
    IF ops.k = "Abbrev"
    THEN Only({
            IF ~t.ok THEN IterErr("UnexpectedOperand", t.operand, c, ops)
            ELSE IF t.operand.k # "Array"
                 THEN IterErr("UnexpectedOperand", t.operand, c, t.ops)
            ELSE Only({
                IF ~len.ok THEN IterErr(len.err, NoOperand, len.c, t.ops)
                ELSE array_loop(len.c, t.operand.el, AsUsize(len.val), <<>>, t.ops, checks) :
                len \in {read_vbr(c, 6, checks)}}) :
            t \in {take_payload_operand(ops)}})
    ELSE array_loop(c, [k |-> "Full"], ops.num_ops, <<>>, OpsFull(0), checks)

\* the match of the Char6 arm of string(), had it the letters in the order
\* of ASCII
string_char6_upper_first(value) ==
    IF value <= 25 THEN value + 65
    ELSE IF value <= 51 THEN value + (97 - 26)
    ELSE IF value <= 61 THEN value - (52 - 48)
    ELSE IF value = 62 THEN 46
    ELSE IF value = 63 THEN 95
    ELSE -1

\* the match of the Char6 arm of string(): the character of a 6-bit value, -1
\* where the match has no character
string_char6(value) ==
    IF value <= 25 THEN value + 97
    ELSE IF value <= 51 THEN value + (65 - 26)
    ELSE IF value <= 61 THEN value - (52 - 48)
    ELSE IF value = 62 THEN 46
    ELSE IF value = 63 THEN 95
    ELSE -1

\* the loops of string(), had they pushed the value read as it is
RECURSIVE string_loop_raw(_, _, _, _, _, _)
string_loop_raw(c, el, len, out, ops, checks) ==
    IF len = 0 THEN IterOk(out, c, ops)
    ELSE Only({
        IF ~r.ok THEN IterErr(r.err, NoOperand, r.c, ops)
        ELSE IF el.k = "Full" /\ ~(r.val \subseteq 0..7)
             THEN IterErr("ValueOverflow", NoOperand, r.c, ops)
        ELSE Only({string_loop_raw(r.c, el, len - 1, pushed, ops, checks) :
                    pushed \in {Append(out, AsU8(r.val))}}) :
        r \in {IF el.k = "Full" THEN read_vbr(c, 6, checks)
               ELSE read(c, IF el.k = "Char6" THEN 6 ELSE el.w)}})

\* the loops of string(): len bytes, each from a char6, a fixed-width value or
\* (kind "Full") a 6-bit VBR value
RECURSIVE string_loop(_, _, _, _, _, _)
string_loop(c, el, len, out, ops, checks) ==
    IF len = 0 THEN IterOk(out, c, ops)
    ELSE Only({
        IF ~r.ok THEN IterErr(r.err, NoOperand, r.c, ops)
        ELSE IF el.k = "Char6" /\ string_char6(AsU8(r.val)) < 0
             THEN IterErr("InvalidAbbrev", NoOperand, r.c, ops)
        ELSE IF el.k = "Full" /\ ~(r.val \subseteq 0..7)
             THEN IterErr("ValueOverflow", NoOperand, r.c, ops)
        ELSE Only({string_loop(r.c, el, len - 1, pushed, ops, checks) :
                    pushed \in {Append(out, IF el.k = "Char6" THEN string_char6(AsU8(r.val))
                                            ELSE AsU8(r.val))}}) :
        r \in {IF el.k = "Full" THEN read_vbr(c, 6, checks)
               ELSE read(c, IF el.k = "Char6" THEN 6 ELSE el.w)}})

\* the arm Some(PayloadOperand::Array(el)) of string(): the state moves once
\* more, the length is read, and then the element's kind decides
string_payload(c, el, ops, checks) ==
    Only({
        IF ~len.ok THEN IterErr(len.err, NoOperand, len.c, ops)
        ELSE IF el.k = "Char6" \/ (el.k = "Fixed" /\ el.w \in 6..8)
             THEN string_loop(len.c, el, AsUsize(len.val), <<>>, ops, checks)
        ELSE IterErr("UnexpectedOperand", el, len.c, ops) :
        len \in {read_vbr(c, 6, checks)}})

string(c, ops, checks) ==
    IF ops.k = "Abbrev"
    THEN Only({
            IF ~t.ok THEN IterErr("UnexpectedOperand", t.operand, c, ops)
            ELSE IF t.operand.k # "Array"
                 THEN IterErr("UnexpectedOperand", t.operand, c, t.ops)
            ELSE string_payload(c, t.operand.el,
                                [t.ops EXCEPT !.state = t.ops.state + 1], checks) :
            t \in {take_payload_operand(ops)}})
    ELSE string_loop(c, [k |-> "Full"], ops.num_ops, <<>>, OpsFull(0), checks)

\* the Payload of a payload operand
PayloadKind(operand) ==
    IF operand.k = "Blob" THEN "Blob"
    ELSE IF operand.el.k = "Char6" THEN "Char6String"
    ELSE "Array"

\* out is Option<Payload>: None, or the payload with its kind
payload(c, ops, checks) ==
    IF ops.k = "Full" THEN IterOk(None, c, ops)
    ELSE IF ops.state > Len(ops.abbrev.fields) THEN IterOk(None, c, ops)
    ELSE IF ops.abbrev.payload.k = "None" THEN IterOk(None, c, ops)
    ELSE Only({
        IF r.ok
        THEN IterOk([some |-> TRUE, kind |-> PayloadKind(ops.abbrev.payload), val |-> r.out],
                    r.c, r.ops)
        ELSE r :
        r \in {CASE PayloadKind(ops.abbrev.payload) = "Blob" -> blob(c, ops, checks)
                 [] PayloadKind(ops.abbrev.payload) = "Char6String" -> string(c, ops, checks)
                 [] PayloadKind(ops.abbrev.payload) = "Array" -> array(c, ops, checks)}})

\* the loop of drop: next() until it gives anything but Ok(Some(_))
RECURSIVE drain(_, _, _)
drain(c, ops, checks) ==
    Only({IF r.ok /\ r.out.some THEN drain(r.c, r.ops, checks) ELSE r :
            r \in {next(c, ops, checks)}})

\* drop, had it drained the fields only
drop_fields_only(c, ops, checks) ==
    Only({IF fields.err = "panic" THEN fields ELSE IterOk(<<>>, fields.c, fields.ops) :
            fields \in {drain(c, ops, checks)}})

\* Drop for RecordIter: no error leaves it, a panic does
drop(c, ops, checks) ==
    Only({
        IF fields.err = "panic" THEN fields
        ELSE IF ops.k = "Abbrev" /\ ops.abbrev.payload.k # "None"
             THEN Only({
                    IF rest.err = "panic" THEN rest ELSE IterOk(<<>>, rest.c, rest.ops) :
                    rest \in {payload(fields.c, fields.ops, checks)}})
        ELSE IterOk(<<>>, fields.c, fields.ops) :
        fields \in {drain(c, ops, checks)}})

\* the loop of into_record: while let Some(f) = self.next()? { fields.push(f) }
RECURSIVE into_record_fields(_, _, _, _)
into_record_fields(c, ops, fields, checks) ==
    Only({
        IF ~r.ok THEN r
        ELSE IF r.out.some
        THEN into_record_fields(r.c, r.ops, Append(fields, r.out.val), checks)
        ELSE IterOk(fields, r.c, r.ops) :
        r \in {next(c, ops, checks)}})

\* into_record: payload: self.payload().ok().flatten()
into_record(c, id, ops, checks) ==
    Only({
        IF ~fields.ok THEN fields
        ELSE Only({
            IF p.err = "panic" THEN p
            ELSE IterOk([id |-> id, fields |-> fields.out,
                         payload |-> IF p.ok THEN p.out ELSE None], p.c, p.ops) :
            p \in {payload(fields.c, fields.ops, checks)}}) :
        fields \in {into_record_fields(c, ops, <<>>, checks)}})

-----------------------------------------------------------------------------
(* The callers of the cursor: the inputs they give *)

\* byte i (from 0) of the three input patterns: the ramp 0, 1, 2, ... of the
\* cursor tests, all ones, and 0x80 / 0x55 alternating
Pattern(p, i) ==
    CASE p = 1 -> i % 256
      [] p = 2 -> 255
      [] OTHER -> IF i % 2 = 0 THEN 128 ELSE 85

InputBuffers == {[i \in 1..n |-> Pattern(p, i - 1)] : p \in 1..3, n \in 0..MaxLen}

ReadWidths == {0, 1, 3, 8, 32, 64, 65}

VbrWidths == {0, 2, 6, 33}

ByteCounts == {0, 1, 4, UsizeMax}

-----------------------------------------------------------------------------
(* The state machine of one cursor and the sub-cursor taken from it *)

NoSub == [live |-> FALSE, c |-> Cursor_new(<<>>), start |-> 0, len |-> 0]

NoVbr == [live |-> FALSE, w |-> 1, x |-> {}, n |-> 1, lead |-> 0]

NoRecord == [live |-> FALSE]

\* phase: "none" before the iterator is made, "open" while it is alive, "dropped"
NoIter == [phase |-> "none", id |-> {}, ops |-> OpsFull(0), clean |-> TRUE,
           payload_reads |-> 0, mismatch |-> FALSE]

\* phase: "none" when no Bitcode::read is made
NoReader == [phase |-> "none"]

\* the cursor the next call is made on
Active == IF sub.live THEN sub.c ELSE cur

Running == last.res.err # "panic"

Outcome(r) == [ok |-> r.ok, err |-> r.err, val |-> r.val, bytes |-> r.bytes]

\* a call op(arg) on the active cursor that gave r
Call(op, arg, r) ==
    /\ last' = [op |-> op, arg |-> arg, res |-> Outcome(r), pre |-> Active,
                onSub |-> sub.live]
    /\ IF sub.live
       THEN sub' = [sub EXCEPT !.c = r.c] /\ cur' = cur
       ELSE cur' = r.c /\ sub' = sub
    /\ UNCHANGED <<it, rd, env>>

Init ==
    /\ input \in InputBuffers
    /\ cur = Cursor_new(input)
    /\ sub = NoSub
    /\ overflow_checks \in BOOLEAN
    /\ vbr = NoVbr
    /\ rec = NoRecord
    /\ it = NoIter
    /\ rd = NoReader
    /\ last = [op |-> "new", arg |-> 0, res |-> Outcome(Ok({}, cur)), pre |-> cur,
               onSub |-> FALSE]

Peek == Running /\ \E n \in ReadWidths : Call("peek", n, peek(Active, n))

Read == Running /\ \E n \in ReadWidths : Call("read", n, read(Active, n))

ReadVbr ==
    Running /\ \E w \in VbrWidths : Call("read_vbr", w, read_vbr(Active, w, overflow_checks))

ReadBytes ==
    Running /\ \E n \in ByteCounts :
        Call("read_bytes", n, read_bytes(Active, n, overflow_checks))

SkipBytes ==
    Running /\ \E n \in ByteCounts :
        Call("skip_bytes", n, skip_bytes(Active, n, overflow_checks))

Align32 == Running /\ Call("align32", 0, align32(Active))

\* take_slice on the first cursor; the calls that follow are made on the sub-cursor
TakeSlice ==
    /\ Running
    /\ ~sub.live
    /\ \E n \in ByteCounts :
        LET r == take_slice(cur, n, overflow_checks)
        IN  /\ last' = [op |-> "take_slice", arg |-> n, res |-> Outcome(r), pre |-> cur,
                        onSub |-> FALSE]
            /\ cur' = r.c
            /\ sub' = IF r.ok
                      THEN [live |-> TRUE, c |-> Cursor_new(r.bytes),
                            start |-> Len(input) - Len(cur.buffer) + cur.offset \div 8,
                            len |-> n]
                      ELSE sub
    /\ UNCHANGED <<it, rd, env>>

\* the sub-cursor goes out of scope; the calls that follow are made on the first cursor
DropSub ==
    /\ Running
    /\ sub.live
    /\ sub' = NoSub
    /\ last' = [op |-> "drop", arg |-> 0, res |-> Outcome(Ok({}, cur)), pre |-> sub.c,
                onSub |-> TRUE]
    /\ UNCHANGED <<cur, it, rd, env>>

Next ==
    \/ Peek
    \/ Read
    \/ ReadVbr
    \/ ReadBytes
    \/ SkipBytes
    \/ Align32

\* one cursor and the calls made on it
Spec == Init /\ [][Next]_vars

SliceBuffers == {[i \in 1..n |-> Pattern(1, i - 1)] : n \in 0..MaxSliceLen}

InitSlice == Init /\ input \in SliceBuffers

NextSlice ==
    \/ Peek
    \/ Read
    \/ ReadVbr
    \/ ReadBytes
    \/ SkipBytes
    \/ Align32
    \/ TakeSlice
    \/ DropSub

\* a cursor, and the sub-cursors taken from it one after the other
SpecSlice == InitSlice /\ [][NextSlice]_vars

-----------------------------------------------------------------------------
(* VBR chains: a writer's side of read_vbr, after LLVM's EmitVBR.  The value x  *)
(* is the set of its one bits; a value with a bit beyond 63 is no u64, and its   *)
(* chain is longer than any u64's.                                               *)

SetMax(S) == CHOOSE m \in S : \A k \in S : k <= m

\* the chunks a width w >= 2 needs for x: (w - 1) bits of x in each, at least one
NumChunks(x, w) == IF x = {} THEN 1 ELSE (SetMax(x) \div (w - 1)) + 1

\* bit b of chunk i of the n chunks of x: the high bit says that a chunk follows
ChunkBit(x, w, n, i, b) == IF b = w - 1 THEN i < n - 1 ELSE (i * (w - 1) + b) \in x

\* bit k of the stream: lead one bits, the chain, and one bits up to the byte's end
ChainBit(v, k) ==
    IF k < v.lead \/ k >= v.lead + v.n * v.w THEN TRUE
    ELSE ChunkBit(v.x, v.w, v.n, (k - v.lead) \div v.w, (k - v.lead) % v.w)

ChainBytes(v) ==
    [i \in 1..((v.lead + v.n * v.w + 7) \div 8) |->
        BitsToNat({j \in 0..7 : ChainBit(v, 8 * (i - 1) + j)})]

ChainValues ==
    {{}} \cup {{b} : b \in 0..MaxValueBit} \cup {0..b : b \in {1, 31, 62, 63, MaxValueBit}}

\* the chains of a width: at width 1 a chunk has no bit of x, and a chain is any
\* number of chunks
ChainsOf(w, lead) ==
    {[live |-> TRUE, w |-> w, x |-> x, lead |-> lead,
      n |-> IF w = 1 THEN k ELSE NumChunks(x, w)] :
        x \in ChainValues, k \in 1..(IF w = 1 THEN MaxWidth1Chunks ELSE 1)}

Chains == UNION {ChainsOf(w, lead) : w \in 1..MaxChunkSize, lead \in {0, 3}}

InitVbr ==
    /\ vbr \in Chains
    /\ input = ChainBytes(vbr)
    /\ cur = Cursor_new(input)
    /\ sub = NoSub
    /\ rec = NoRecord
    /\ it = NoIter
    /\ rd = NoReader
    /\ overflow_checks \in BOOLEAN
    /\ last = [op |-> "new", arg |-> 0, res |-> Outcome(Ok({}, cur)), pre |-> cur,
               onSub |-> FALSE]

\* the reader comes to the chain: the bits before it are read first
ReadLead ==
    /\ Running
    /\ cur.offset < vbr.lead
    /\ Call("read", vbr.lead, read(Active, vbr.lead))

\* the chain is read with the width it was written with
ReadChain ==
    /\ Running
    /\ cur.offset = vbr.lead
    /\ last.op # "read_vbr"
    /\ Call("read_vbr", vbr.w, read_vbr(Active, vbr.w, overflow_checks))

\* what follows the chain
ReadAfterChain ==
    /\ Running
    /\ last.op = "read_vbr"
    /\ \E bits \in {1, 8} : Call("read", bits, read(Active, bits))

NextVbr == ReadLead \/ ReadChain \/ ReadAfterChain

SpecVbr == InitVbr /\ [][NextVbr]_vars

-----------------------------------------------------------------------------
(* Records: a writer's side of RecordIter.  A bit is a BOOLEAN, a record is   *)
(* the sequence of its bits, written at bit `lead` of the input.              *)

NatBits(n) == {i \in 0..19 : (n \div Pow2(i)) % 2 = 1}

FixedBits(val, w) == [i \in 1..w |-> (i - 1) \in val]

VbrBits(x, w) ==
    LET n == NumChunks(x, w)
    IN  [k \in 1..(n * w) |-> ChunkBit(x, w, n, (k - 1) \div w, (k - 1) % w)]

\* a char6 is written as its 6-bit value, a literal is not written
ScalarBits(op, val) ==
    CASE op.k = "Literal" -> <<>>
      [] op.k = "Fixed" -> FixedBits(val, op.w)
      [] op.k = "Vbr" -> VbrBits(val, op.w)
      [] op.k = "Char6" -> FixedBits(val, 6)

RECURSIVE Concat(_)
Concat(seqs) == IF seqs = <<>> THEN <<>> ELSE Head(seqs) \o Concat(Tail(seqs))

\* the zero bits from bit position p up to a multiple of 32
PadTo32(p) == [i \in 1..((32 - (p % 32)) % 32) |-> FALSE]

BytesBits(bytes) ==
    [k \in 1..(8 * Len(bytes)) |->
        ((k - 1) % 8) \in ByteBits(bytes[((k - 1) \div 8) + 1])]

\* the fields, then the payload: its length, then its elements, or its bytes
\* between paddings
AbbrevRecordBits(abbrev, vals, lead, len, elements, bytes) ==
    LET fields == Concat([i \in 1..Len(vals) |-> ScalarBits(abbrev.fields[i], vals[i])])
        head == fields \o VbrBits(NatBits(len), 6)
        pad == PadTo32(lead + Len(head))
    IN  CASE abbrev.payload.k = "None" -> fields
          [] abbrev.payload.k = "Array" ->
                head \o Concat([i \in 1..len |-> ScalarBits(abbrev.payload.el, elements[i])])
          [] abbrev.payload.k = "Blob" ->
                head \o pad \o BytesBits(bytes) \o PadTo32(8 * len)

\* the code, the number of fields, the fields
FullRecordBits(id, vals) ==
    VbrBits(id, 6) \o VbrBits(NatBits(Len(vals)), 6)
        \o Concat([i \in 1..Len(vals) |-> VbrBits(vals[i], 6)])

\* the values written: by fill 0 the least of each operand, by fill 1 the
\* greatest, or a value that takes two chunks
ValueOf(op, fill) ==
    CASE op.k = "Literal" -> op.v
      [] op.k = "Fixed" -> IF fill = 0 THEN {} ELSE 0..(op.w - 1)
      [] op.k = "Vbr" -> IF fill = 0 THEN {} ELSE {0, op.w}
      [] op.k = "Char6" -> IF fill = 0 THEN {} ELSE 0..5

Abbrevs ==
    { Abbreviation(<<Literal({0, 1, 2})>>, NoOperand),
      Abbreviation(<<Fixed(3), Vbr(6), Char6>>, NoOperand),
      Abbreviation(<<Literal({0}), Fixed(8)>>, Blob),
      Abbreviation(<<Vbr(4)>>, Array(Char6)),
      Abbreviation(<<Fixed(2), Char6>>, Array(Fixed(7))),
      Abbreviation(<<Literal({1})>>, Array(Vbr(6))) }

AbbrevRecord(abbrev, fill, len, lead, trail) ==
    LET vals == [i \in 1..Len(abbrev.fields) |-> ValueOf(abbrev.fields[i], fill)]
        bytes == IF abbrev.payload.k = "Blob" THEN [i \in 1..len |-> i + 16 * fill]
                 ELSE <<>>
        elements == IF abbrev.payload.k = "Array"
                    THEN [i \in 1..len |-> ValueOf(abbrev.payload.el, (fill + i) % 2)]
                    ELSE <<>>
    IN  [live |-> TRUE, abbreviated |-> TRUE, abbrev |-> abbrev, id |-> vals[1],
         vals |-> vals, elements |-> elements, bytes |-> bytes, lead |-> lead,
         trail |-> trail,
         bits |-> AbbrevRecordBits(abbrev, vals, lead, len, elements, bytes)]

\* fill 0: fields of two chunks that are bytes; fill 1: some are beyond a byte
FullRecord(fill, n, lead, trail) ==
    LET vals == [i \in 1..n |-> IF fill = 0 THEN {0, 5} ELSE IF i % 2 = 1 THEN {8} ELSE {1}]
        id == IF fill = 0 THEN {} ELSE {0, 6}
    IN  [live |-> TRUE, abbreviated |-> FALSE, abbrev |-> Abbreviation(<<>>, NoOperand),
         id |-> id, vals |-> vals, elements |-> <<>>, bytes |-> <<>>, lead |-> lead,
         trail |-> trail, bits |-> FullRecordBits(id, vals)]

Records ==
    UNION {
        {AbbrevRecord(a, fill, IF a.payload.k = "None" THEN 0 ELSE len, lead, trail) :
            a \in Abbrevs, len \in 0..MaxPayloadLen}
        \cup {FullRecord(fill, n, lead, trail) : n \in 0..MaxOps} :
        fill \in {0, 1}, lead \in {0, 3}, trail \in {0, 4}}

\* the first bit after the record
RecordEnd(r) == r.lead + Len(r.bits)

\* the input: lead one bits, the record, one bits to the end of the byte, and
\* trail bytes 0xFF
RecordBytes(r) ==
    [i \in 1..(((RecordEnd(r) + 7) \div 8) + r.trail) |->
        BitsToNat({j \in 0..7 :
            LET k == 8 * (i - 1) + j
            IN  IF k < r.lead \/ k >= RecordEnd(r) THEN TRUE ELSE r.bits[k - r.lead + 1]})]

-----------------------------------------------------------------------------
(* The state machine of one RecordIter on a cursor *)

InitRecord ==
    /\ rec \in Records
    /\ input = RecordBytes(rec)
    /\ cur = Cursor_new(input)
    /\ sub = NoSub
    /\ overflow_checks \in BOOLEAN
    /\ vbr = NoVbr
    /\ it = NoIter
    /\ rd = NoReader
    /\ last = [op |-> "new", arg |-> 0, res |-> Outcome(Ok({}, cur)), pre |-> cur,
               onSub |-> FALSE]

\* the bit position of the cursor in the input
Pos(c) == 8 * Len(input) - unconsumed_bit_len(c)

\* blob(), array() or string() asks for another kind of payload than the
\* abbreviation has
Mismatched(op, ops) ==
    /\ ops.k = "Abbrev"
    /\ ops.abbrev.payload.k # "None"
    /\ \/ op = "blob" /\ ops.abbrev.payload.k # "Blob"
       \/ op = "array" /\ ops.abbrev.payload.k # "Array"
       \/ op = "string" /\ ops.abbrev.payload.k # "Array"
       \/ /\ op = "string"
          /\ ops.abbrev.payload.k = "Array"
          /\ ops.abbrev.payload.el.k # "Char6"
          /\ ~(ops.abbrev.payload.el.k = "Fixed" /\ ops.abbrev.payload.el.w \in 6..8)

\* the reader reads what precedes the record
ReadBeforeRecord ==
    /\ Running
    /\ it.phase = "none"
    /\ cur.offset < rec.lead
    /\ Call("read", rec.lead, read(Active, rec.lead))

\* a call op() on the iterator that gave r; reads counts the calls for the
\* payload that read bits
IterCall(op, r) ==
    /\ last' = [op |-> op, arg |-> 0, pre |-> cur, onSub |-> FALSE,
                res |-> [ok |-> r.ok, err |-> r.err, operand |-> r.operand, out |-> r.out]]
    /\ cur' = r.c
    /\ it' = [it EXCEPT !.ops = r.ops,
                        !.clean = it.clean /\ r.ok,
                        !.payload_reads =
                            IF op \in {"blob", "array", "string"} /\ Pos(r.c) > Pos(cur)
                            THEN it.payload_reads + 1 ELSE it.payload_reads,
                        !.mismatch = it.mismatch \/ Mismatched(op, it.ops)]
    /\ UNCHANGED <<sub, rd, env>>

FromCursor ==
    /\ Running
    /\ it.phase = "none"
    /\ cur.offset = rec.lead
    /\ \E r \in {IF rec.abbreviated
                 THEN from_cursor_abbrev(cur, rec.abbrev, overflow_checks)
                 ELSE from_cursor(cur, overflow_checks)} :
           /\ last' = [op |-> IF rec.abbreviated THEN "from_cursor_abbrev" ELSE "from_cursor",
                       arg |-> 0, pre |-> cur, onSub |-> FALSE,
                       res |-> [ok |-> r.ok, err |-> r.err, operand |-> r.operand,
                                out |-> r.out]]
           /\ cur' = r.c
           /\ it' = IF r.ok THEN [NoIter EXCEPT !.phase = "open", !.id = r.out, !.ops = r.ops]
                    ELSE [NoIter EXCEPT !.phase = "failed"]
           /\ UNCHANGED <<sub, rd, env>>

IterNext ==
    /\ Running
    /\ it.phase = "open"
    /\ \E r \in {next(cur, it.ops, overflow_checks)} : IterCall("next", r)

IterBlob ==
    /\ Running
    /\ it.phase = "open"
    /\ \E r \in {blob(cur, it.ops, overflow_checks)} : IterCall("blob", r)

IterArray ==
    /\ Running
    /\ it.phase = "open"
    /\ \E r \in {array(cur, it.ops, overflow_checks)} : IterCall("array", r)

IterString ==
    /\ Running
    /\ it.phase = "open"
    /\ \E r \in {string(cur, it.ops, overflow_checks)} : IterCall("string", r)

\* the iterator goes out of scope
IterDrop ==
    /\ Running
    /\ it.phase = "open"
    /\ \E fields \in {drain(cur, it.ops, overflow_checks)},
          r \in {drop(cur, it.ops, overflow_checks)} :
           /\ last' = [op |-> "drop_iter", arg |-> 0, pre |-> cur, onSub |-> FALSE,
                       res |-> [ok |-> r.ok, err |-> r.err, operand |-> r.operand,
                                out |-> r.out]]
           /\ cur' = r.c
           /\ it' = [it EXCEPT !.phase = "dropped",
                               !.ops = r.ops,
                               !.payload_reads =
                                   IF Pos(r.c) > Pos(fields.c)
                                   THEN it.payload_reads + 1 ELSE it.payload_reads]
           /\ UNCHANGED <<sub, rd, env>>

NextRecord ==
    \/ ReadBeforeRecord
    \/ FromCursor
    \/ IterNext
    \/ IterBlob
    \/ IterArray
    \/ IterString
    \/ IterDrop

SpecRecord == InitRecord /\ [][NextRecord]_vars

-----------------------------------------------------------------------------
(* One RecordIter made into a Record, on an input that may end too early *)

InitInto ==
    /\ rec \in Records
    /\ \E cut \in 0..MaxCut :
        /\ cut <= Len(RecordBytes(rec))
        /\ input = SubSeq(RecordBytes(rec), 1, Len(RecordBytes(rec)) - cut)
    /\ cur = Cursor_new(input)
    /\ sub = NoSub
    /\ overflow_checks \in BOOLEAN
    /\ vbr = NoVbr
    /\ it = NoIter
    /\ rd = NoReader
    /\ last = [op |-> "new", arg |-> 0, res |-> Outcome(Ok({}, cur)), pre |-> cur,
               onSub |-> FALSE]

\* into_record(), and the drop of the iterator at its end
IterIntoRecord ==
    /\ Running
    /\ it.phase = "open"
    /\ \E r \in {into_record(cur, it.id, it.ops, overflow_checks)} :
       \E d \in {IF r.err = "panic" THEN r ELSE drop(r.c, r.ops, overflow_checks)} :
           /\ last' = [op |-> "into_record", arg |-> 0, pre |-> cur, onSub |-> FALSE,
                       res |-> IF d.err = "panic"
                               THEN [ok |-> FALSE, err |-> "panic", operand |-> d.operand,
                                     out |-> <<>>]
                               ELSE [ok |-> r.ok, err |-> r.err, operand |-> r.operand,
                                     out |-> r.out]]
           /\ cur' = d.c
           /\ it' = [it EXCEPT !.phase = "dropped", !.ops = d.ops,
                               !.clean = it.clean /\ r.ok]
           /\ UNCHANGED <<sub, rd, env>>

NextInto ==
    \/ ReadBeforeRecord
    \/ FromCursor
    \/ IterIntoRecord

SpecInto == InitInto /\ [][NextInto]_vars

-----------------------------------------------------------------------------
(* One RecordIter read by its typed accessors *)

\* the u64 values of the fields: the least and the greatest, and those next
\* to the limits of u8, u32, i64 and bool
TypedValues ==
    {{}, {0}, {1}, {0, 1}, {0, 2}, 0..7, {8}, 0..31, {32}, {63}, {0, 63}, 1..63, 0..63}

\* an unabbreviated record of n fields: v, v >> 1, v >> 2, ...
TypedRecord(v, n, lead) ==
    LET vals == [i \in 1..n |-> Shr(v, i - 1)]
    IN  [live |-> TRUE, abbreviated |-> FALSE, abbrev |-> Abbreviation(<<>>, NoOperand),
         id |-> {0}, vals |-> vals, elements |-> <<>>, bytes |-> <<>>, lead |-> lead,
         trail |-> 0, bits |-> FullRecordBits({0}, vals)]

TypedRecords ==
    {TypedRecord(v, n, lead) : v \in TypedValues, n \in 0..MaxOps, lead \in {0, 3}}
    \cup {AbbrevRecord(a, fill, IF a.payload.k = "None" THEN 0 ELSE len, lead, 0) :
            a \in Abbrevs, len \in {0, MaxPayloadLen}, fill \in {0, 1}, lead \in {0, 3}}

InitTyped ==
    /\ rec \in TypedRecords
    /\ input = RecordBytes(rec)
    /\ cur = Cursor_new(input)
    /\ sub = NoSub
    /\ overflow_checks \in BOOLEAN
    /\ vbr = NoVbr
    /\ it = NoIter
    /\ rd = NoReader
    /\ last = [op |-> "new", arg |-> 0, res |-> Outcome(Ok({}, cur)), pre |-> cur,
               onSub |-> FALSE]

IterU64 ==
    /\ Running
    /\ it.phase = "open"
    /\ \E r \in {u64(cur, it.ops, overflow_checks)} : IterCall("u64", r)

IterI64 ==
    /\ Running
    /\ it.phase = "open"
    /\ \E r \in {i64(cur, it.ops, overflow_checks)} : IterCall("i64", r)

IterU32 ==
    /\ Running
    /\ it.phase = "open"
    /\ \E r \in {u32(cur, it.ops, overflow_checks)} : IterCall("u32", r)

IterU8 ==
    /\ Running
    /\ it.phase = "open"
    /\ \E r \in {u8(cur, it.ops, overflow_checks)} : IterCall("u8", r)

IterBool ==
    /\ Running
    /\ it.phase = "open"
    /\ \E r \in {bool(cur, it.ops, overflow_checks)} : IterCall("bool", r)

NextTyped ==
    \/ ReadBeforeRecord
    \/ FromCursor
    \/ IterNext
    \/ IterU64
    \/ IterI64
    \/ IterU32
    \/ IterU8
    \/ IterBool
    \/ IterIntoRecord

SpecTyped == InitTyped /\ [][NextTyped]_vars

-----------------------------------------------------------------------------
(* One RecordIter on a record of Char6 values *)

\* a Char6 field and an array of Char6
AbChar6 == Abbreviation(<<Literal({0, 1}), Char6>>, Array(Char6))

\* the field written as the 6-bit value v, and the array as v and 63 - v
Char6Record(v, lead) ==
    LET vals == <<{0, 1}, NatBits(v)>>
        elements == <<NatBits(v), NatBits(63 - v)>>
    IN  [live |-> TRUE, abbreviated |-> TRUE, abbrev |-> AbChar6, id |-> vals[1],
         vals |-> vals, elements |-> elements, bytes |-> <<>>, lead |-> lead,
         trail |-> 0,
         bits |-> AbbrevRecordBits(AbChar6, vals, lead, Len(elements), elements, <<>>)]

InitChar6 ==
    /\ rec \in {Char6Record(v, lead) : v \in 0..63, lead \in {0, 3}}
    /\ input = RecordBytes(rec)
    /\ cur = Cursor_new(input)
    /\ sub = NoSub
    /\ overflow_checks \in BOOLEAN
    /\ vbr = NoVbr
    /\ it = NoIter
    /\ rd = NoReader
    /\ last = [op |-> "new", arg |-> 0, res |-> Outcome(Ok({}, cur)), pre |-> cur,
               onSub |-> FALSE]

NextChar6 ==
    \/ ReadBeforeRecord
    \/ FromCursor
    \/ IterNext
    \/ IterArray
    \/ IterString

SpecChar6 == InitChar6 /\ [][NextChar6]_vars

-----------------------------------------------------------------------------
(* One RecordIter on a record whose payload is a Char6 string of five *)

\* the record code, and an array of Char6
AbString == Abbreviation(<<Literal({0, 1})>>, Array(Char6))

StringRecord(values, lead) ==
    LET vals == <<{0, 1}>>
        elements == [i \in 1..Len(values) |-> NatBits(values[i])]
    IN  [live |-> TRUE, abbreviated |-> TRUE, abbrev |-> AbString, id |-> vals[1],
         vals |-> vals, elements |-> elements, bytes |-> <<>>, lead |-> lead,
         trail |-> 0,
         bits |-> AbbrevRecordBits(AbString, vals, lead, Len(elements), elements, <<>>)]

\* five 6-bit values: of h, t, H and 7 first, of e, n, '.' and '_' second
StringValues == {<<a, b, 11, 11, 14>> : a \in {7, 19, 33, 59}, b \in {4, 13, 62, 63}}

InitString ==
    /\ rec \in {StringRecord(values, lead) : values \in StringValues, lead \in {0, 3}}
    /\ input = RecordBytes(rec)
    /\ cur = Cursor_new(input)
    /\ sub = NoSub
    /\ overflow_checks \in BOOLEAN
    /\ vbr = NoVbr
    /\ it = NoIter
    /\ rd = NoReader
    /\ last = [op |-> "new", arg |-> 0, res |-> Outcome(Ok({}, cur)), pre |-> cur,
               onSub |-> FALSE]

NextString ==
    \/ ReadBeforeRecord
    \/ FromCursor
    \/ IterNext
    \/ IterString
    \/ IterIntoRecord

SpecString == InitString /\ [][NextString]_vars

-----------------------------------------------------------------------------
(* One RecordIter on a record with a blob, on an input that may end early *)

\* a literal record code, a byte, and a blob
AbBlobField == Abbreviation(<<Literal({0}), Fixed(8)>>, Blob)

\* the blobs are of 0 bytes up to one byte over a word
MaxBlobLen == 5

InitBlob ==
    /\ rec \in {AbbrevRecord(AbBlobField, fill, len, lead, trail) :
                    fill \in {0, 1}, len \in 0..MaxBlobLen, lead \in {0, 3},
                    trail \in {0, 4}}
    /\ \E cut \in 0..Len(RecordBytes(rec)) :
        input = SubSeq(RecordBytes(rec), 1, Len(RecordBytes(rec)) - cut)
    /\ cur = Cursor_new(input)
    /\ sub = NoSub
    /\ overflow_checks \in BOOLEAN
    /\ vbr = NoVbr
    /\ it = NoIter
    /\ rd = NoReader
    /\ last = [op |-> "new", arg |-> 0, res |-> Outcome(Ok({}, cur)), pre |-> cur,
               onSub |-> FALSE]

NextBlob ==
    \/ ReadBeforeRecord
    \/ FromCursor
    \/ IterNext
    \/ IterBlob

SpecBlob == InitBlob /\ [][NextBlob]_vars

-----------------------------------------------------------------------------
(* What the claims about the cursor speak of *)

\* stream bit k of the bytes B: bit (k mod 8), from the least significant, of byte k div 8
StreamBit(B, k) == (B[(k \div 8) + 1] \div Pow2(k % 8)) % 2 = 1

\* the bytes the cursor of the last call reads: the input, or the slice taken from it
LastStream ==
    IF last.onSub THEN SubSeq(input, sub.start + 1, sub.start + sub.len) ELSE input

\* the cursor the last call was made on, as the call left it
LastCur == IF last.onSub THEN sub.c ELSE cur

\* the bit position of cursor c in the stream B it reads
PosIn(B, c) == 8 * Len(B) - unconsumed_bit_len(c)

\* what a cursor has not read yet is the end of its stream
ReadsEndOf(B, c) ==
    /\ Len(c.buffer) <= Len(B)
    /\ c.buffer = SubSeq(B, Len(B) - Len(c.buffer) + 1, Len(B))
    /\ c.offset <= 8 * Len(c.buffer)

OnCursor(ops) == last.op \in ops /\ (last.onSub => sub.live)

\* C1: read(n), 1 <= n <= 64, with n bits remaining at position p returns the integer
\* whose bit i is stream bit p + i
C1_ReadReturnsStreamBits ==
    (OnCursor({"read"}) /\ last.arg \in 1..64 /\ last.arg <= unconsumed_bit_len(last.pre))
    => /\ last.res.ok
       /\ last.res.val = {i \in 0..(last.arg - 1) :
                            StreamBit(LastStream, PosIn(LastStream, last.pre) + i)}

\* C2: peek never moves the cursor; read(n) moves it by n when it succeeds, fails
\* for n = 0 and n > 64, fails with BufferOverflow when fewer than n bits remain,
\* and a read that fails leaves the cursor where it was, so that any read that
\* fits still succeeds
C2_PositionChangesOnlyOnSuccess ==
    /\ OnCursor({"peek"}) => LastCur = last.pre
    /\ OnCursor({"read"}) =>
        LET n == last.arg
            legal == n >= 1 /\ n <= 64
            fits == n <= unconsumed_bit_len(last.pre)
        IN  /\ last.res.ok <=> (legal /\ fits)
            /\ (legal /\ ~fits) => last.res.err = "BufferOverflow"
            /\ last.res.ok => LastCur = [last.pre EXCEPT !.offset = last.pre.offset + n]
            /\ ~last.res.ok =>
                /\ LastCur = last.pre
                /\ \A m \in 1..64 : m <= unconsumed_bit_len(LastCur) => read(LastCur, m).ok

\* a read failed for lack of bits at an unaligned position with bits left to read
C2_Witness ==
    /\ OnCursor({"read"})
    /\ last.res.err = "BufferOverflow"
    /\ LastCur.offset % 8 # 0
    /\ unconsumed_bit_len(LastCur) > 0

\* the least multiple of 32 that is >= p
Aligned32(p) == ((p + 31) \div 32) * 32

\* C5: align32 moves the cursor to the least multiple of 32 at or after its
\* position in the stream, and fails, leaving the cursor as it was, when that
\* position is beyond the end
C5_Align32 ==
    OnCursor({"align32"}) =>
        LET p == PosIn(LastStream, last.pre)
            q == Aligned32(p)
        IN  IF q <= 8 * Len(LastStream)
            THEN /\ last.res.ok
                 /\ PosIn(LastStream, LastCur) = q
                 /\ ReadsEndOf(LastStream, LastCur)
            ELSE /\ ~last.res.ok
                 /\ LastCur = last.pre

\* align32 succeeded from a position that is no multiple of 32, after an earlier one
C5_Witness ==
    /\ OnCursor({"align32"})
    /\ last.res.ok
    /\ last.pre.offset % 32 # 0
    /\ Len(last.pre.buffer) < Len(input)

\* C6: read_bytes(n) and skip_bytes(n) fail with Alignment off a byte boundary and
\* with BufferOverflow when fewer than n bytes remain, leave the cursor unchanged
\* when they fail, and move it by 8 * n bits when they succeed, read_bytes
\* returning the n bytes passed over
C6_ReadBytesSkipBytes ==
    OnCursor({"read_bytes", "skip_bytes"}) =>
        LET pre == last.pre
            n == last.arg
            start == pre.offset \div 8
            \* n < 0 stands for a count near 2^64
            fewer == n < 0 \/ n > Len(pre.buffer) - start
        IN  /\ pre.offset % 8 # 0 => ~last.res.ok /\ last.res.err = "Alignment"
            /\ (pre.offset % 8 = 0 /\ fewer) =>
                   ~last.res.ok /\ last.res.err = "BufferOverflow"
            /\ ~last.res.ok => LastCur = pre
            /\ last.res.ok =>
                /\ LastCur = [pre EXCEPT !.offset = pre.offset + 8 * n]
                /\ last.op = "read_bytes" =>
                       last.res.bytes = SubSeq(pre.buffer, start + 1, start + n)

\* the bytes the sub-cursor was taken over
Slice == SubSeq(input, sub.start + 1, sub.start + sub.len)

\* C7: take_slice(n) fails with Alignment off a 32-bit boundary; when it succeeds
\* the first cursor has moved by n bytes and the sub-cursor reads exactly these n
\* bytes: whatever is called on the sub-cursor, it stays inside them, returns
\* their bits only, and leaves the first cursor where take_slice put it
C7_TakeSlice ==
    /\ last.op = "take_slice" =>
        LET pre == last.pre
            n == last.arg
            start == PosIn(input, pre) \div 8
        IN  /\ pre.offset % 32 # 0 => ~last.res.ok /\ last.res.err = "Alignment"
            /\ ~last.res.ok => cur = pre /\ ~sub.live
            /\ last.res.ok =>
                /\ cur = [pre EXCEPT !.offset = pre.offset + 8 * n]
                /\ sub.live
                /\ sub.c = Cursor_new(SubSeq(input, start + 1, start + n))
    /\ sub.live =>
        /\ PosIn(input, cur) = 8 * (sub.start + sub.len)
        /\ ReadsEndOf(Slice, sub.c)
        /\ (last.onSub /\ last.res.ok /\ last.op \in {"peek", "read"}) =>
            LET p == PosIn(Slice, last.pre)
            IN  /\ p + last.arg <= 8 * sub.len
                /\ \A i \in last.res.val : i < last.arg /\ StreamBit(Slice, p + i)
        /\ (last.onSub /\ last.res.ok /\ last.op = "read_bytes") =>
            LET p == PosIn(Slice, last.pre) \div 8
            IN  /\ p + last.arg <= sub.len
                /\ last.res.bytes = SubSeq(Slice, p + 1, p + last.arg)

\* a read on a sub-cursor of some bytes failed for lack of bits, while bytes
\* follow the slice in the input
C7_Witness ==
    /\ sub.live
    /\ sub.len > 0
    /\ last.onSub
    /\ last.op = "read"
    /\ last.res.err = "BufferOverflow"
    /\ last.pre.offset > 0
    /\ unconsumed_bit_len(cur) > 0

-----------------------------------------------------------------------------
(* What the claims about VBR chains speak of *)

\* the chain was read, from its first bit, with the width it was written with
ChainRead == vbr.live /\ last.op = "read_vbr" /\ last.pre.offset = vbr.lead

\* the chunks of width w that the bits of a u64 can fill: ceil(64 / (w - 1))
ChunksOfU64(w) == (64 + (w - 2)) \div (w - 1)

\* C3 as stated: for every width in 1..32 and every u64 x, reading the chain of x
\* returns x
C3_VbrRoundTripAnyWidth ==
    (ChainRead /\ vbr.x \subseteq 0..63) => last.res.ok /\ last.res.val = vbr.x

\* C3: for every width in 2..32 and every u64 x, reading the chain of x returns
\* x, the low w - 1 bits of chunk i at shift i * (w - 1), and stops after the
\* first chunk whose high bit is clear; at width 1 a chunk holds no bit of x and
\* every chain reads as 0
C3_VbrRoundTrip ==
    (ChainRead /\ vbr.x \subseteq 0..63) =>
        /\ last.res.ok
        /\ last.res.val = IF vbr.w = 1 THEN {} ELSE vbr.x
        /\ cur.offset = vbr.lead + vbr.n * vbr.w

\* a u64 with its top bit set was read back from a chain of several chunks that
\* does not start on a byte boundary, the last chunk holding fewer than w - 1 of
\* its bits
C3_Witness ==
    /\ ChainRead
    /\ last.res.ok
    /\ vbr.x = 0..63
    /\ vbr.w = 6
    /\ vbr.n = 13
    /\ vbr.lead = 3
    /\ last.res.val = vbr.x

\* C4: read_vbr(w) fails with VbrOverflow on a chain of more than
\* ceil(64 / (w - 1)) chunks, and shifts no chunk by 64 or more
C4_VbrOverflow ==
    (ChainRead /\ vbr.w >= 2 /\ vbr.n > ChunksOfU64(vbr.w)) =>
        ~last.res.ok /\ last.res.err = "VbrOverflow"

-----------------------------------------------------------------------------
(* What the claims about RecordIter speak of *)

\* every field of the record and its payload have been read by calls that
\* succeeded
ReadToCompletion ==
    /\ it.phase = "open"
    /\ it.clean
    /\ IF it.ops.k = "Full" THEN it.ops.num_ops = 0
       ELSE /\ it.ops.state >= Len(it.ops.abbrev.fields)
            /\ it.ops.abbrev.payload.k # "None" => it.payload_reads = 1

\* C8: dropping a RecordIter after any calls that succeeded, with fields or the
\* payload read or not, leaves the cursor where reading every field and the
\* payload leaves it: at the first bit after the record
C8_DropSkipsTheRecord ==
    /\ ReadToCompletion => Pos(cur) = RecordEnd(rec)
    /\ (it.phase = "dropped" /\ it.clean) => Running /\ Pos(cur) = RecordEnd(rec)

\* an iterator was dropped right after it was made, on a record with a field
\* and a blob of two bytes that do not end the input
C8_Witness ==
    /\ it.phase = "dropped"
    /\ it.clean
    /\ rec.abbreviated
    /\ rec.abbrev.payload.k = "Blob"
    /\ Len(rec.bytes) = 2
    /\ rec.trail > 0
    /\ last.pre.offset = rec.lead
    /\ Pos(cur) > Pos(last.pre)

\* C9: over any calls of next, blob, array, string and the drop, at most one
\* call reads bits for the payload and no bit beyond the record is read; once
\* the payload has been read, payload() and next() return None, read no bit and
\* leave the iterator as it is
C9_PayloadOnce ==
    /\ it.payload_reads <= 1
    /\ rec.live => Pos(cur) <= RecordEnd(rec)
    /\ (it.phase = "open" /\ Running /\ it.payload_reads = 1) =>
        LET p == payload(cur, it.ops, overflow_checks)
            n == next(cur, it.ops, overflow_checks)
        IN  /\ p.ok /\ ~p.out.some /\ p.c = cur /\ p.ops = it.ops
            /\ n.ok /\ ~n.out.some /\ n.c = cur /\ n.ops = it.ops

\* the payload of an abbreviated record was read, and then asked for again by a
\* call for its kind, with bytes after the record in the input
C9_Witness ==
    /\ it.phase = "open"
    /\ it.payload_reads = 1
    /\ ~it.mismatch
    /\ rec.abbreviated
    /\ rec.trail > 0
    /\ last.op \in {"blob", "array", "string"}
    /\ ~last.res.ok
    /\ it.ops.state > Len(it.ops.abbrev.fields)
    /\ last.pre = cur

\* C10: blob(), array() or string() on an abbreviated record whose payload is of
\* another kind fails with UnexpectedOperand, and the drop of the record
\* afterwards leaves the cursor at the first bit after the record
C10_MismatchedPayloadCall ==
    /\ (last.op \in {"blob", "array", "string"} /\ Mismatched(last.op, it.ops)) =>
        ~last.res.ok /\ last.res.err = "UnexpectedOperand"
    /\ (it.phase = "dropped" /\ it.mismatch) => Pos(cur) = RecordEnd(rec)

-----------------------------------------------------------------------------
(* BitStreamReader, src/src/read.rs: the errors, and the results of its      *)
(* functions: Ok(out) / Err(e), with the cursor after. The reader's          *)
(* self.cursor.advance(32) is Cursor::align32 of src/src/bits.rs             *)

NoError == [kind |-> "", bits |-> "", block_id |-> {}, n |-> 0, magic |-> <<0, 0, 0, 0>>]

InvalidSignature(magic) == [NoError EXCEPT !.kind = "InvalidSignature", !.magic = magic]
InvalidAbbrev           == [NoError EXCEPT !.kind = "InvalidAbbrev"]
NestedBlockInBlockInfo  == [NoError EXCEPT !.kind = "NestedBlockInBlockInfo"]
MissingSetBid           == [NoError EXCEPT !.kind = "MissingSetBid"]
InvalidBlockInfoRecord(code) ==
    [NoError EXCEPT !.kind = "InvalidBlockInfoRecord", !.block_id = code]
NoSuchAbbrev(block_id, abbrev_id) ==
    [NoError EXCEPT !.kind = "NoSuchAbbrev", !.block_id = block_id, !.n = abbrev_id]
MissingEndBlock(block_id) ==
    [NoError EXCEPT !.kind = "MissingEndBlock", !.block_id = block_id]

\* From<bits::Error>; a panic of the cursor is a panic of the reader
ReadBits(err) ==
    IF err = "panic" THEN [NoError EXCEPT !.kind = "panic"]
    ELSE [NoError EXCEPT !.kind = "ReadBits", !.bits = err]

RdOk(out, c) == [ok |-> TRUE, e |-> NoError, out |-> out, c |-> c]
RdErr(e, c)  == [ok |-> FALSE, e |-> e, out |-> <<>>, c |-> c]

\* a u64 taken as a usize that is used as a count of bits
AsWidth(val) == IF val \subseteq 0..7 THEN BitsToNat(val) ELSE 256

RECURSIVE read_abbrev_op(_, _)
read_abbrev_op(c, checks) ==
    Only({
        IF ~is_literal.ok THEN RdErr(ReadBits(is_literal.err), is_literal.c)
        ELSE IF is_literal.val = {0}
        THEN Only({ IF ~v.ok THEN RdErr(ReadBits(v.err), v.c)
                    ELSE RdOk(Literal(v.val), v.c) :
                    v \in {read_vbr(is_literal.c, 8, checks)} })
        ELSE Only({
            IF ~op_type.ok THEN RdErr(ReadBits(op_type.err), op_type.c)
            ELSE CASE BitsToNat(op_type.val) \in {1, 2} ->
                        Only({ IF ~w.ok THEN RdErr(ReadBits(w.err), w.c)
                               ELSE IF op_type.val = {0}
                                    THEN RdOk(Fixed(AsU8(w.val)), w.c)
                                    ELSE RdOk(Vbr(AsU8(w.val)), w.c) :
                               w \in {read_vbr(op_type.c, 5, checks)} })
                   [] BitsToNat(op_type.val) = 3 ->
                        Only({ IF ~el.ok THEN el ELSE RdOk(Array(el.out), el.c) :
                               el \in {read_abbrev_op(op_type.c, checks)} })
                   [] BitsToNat(op_type.val) = 4 -> RdOk(Char6, op_type.c)
                   [] BitsToNat(op_type.val) = 5 -> RdOk(Blob, op_type.c)
                   [] OTHER -> RdErr(InvalidAbbrev, op_type.c) :
            op_type \in {read(is_literal.c, 3)} }) :
        is_literal \in {read(c, 1)} })

\* iteration i of the loop of read_abbrev; num_ops - 2 of num_ops = 1
\* overflows: a panic with overflow checks, else no i equals it
RECURSIVE read_abbrev_loop(_, _, _, _, _)
read_abbrev_loop(c, num_ops, i, operands, checks) ==
    IF i >= num_ops THEN RdOk([operands |-> operands], c)
    ELSE Only({
        IF ~op.ok THEN op
        ELSE IF op.out.k = "Array"
             THEN IF num_ops < 2 /\ checks THEN RdErr(ReadBits("panic"), op.c)
                  ELSE IF num_ops >= 2 /\ i = num_ops - 2
                       THEN RdOk([operands |-> Append(operands, op.out)], op.c)
                       ELSE RdErr(InvalidAbbrev, op.c)
        ELSE IF op.out.k = "Blob" /\ i # num_ops - 1 THEN RdErr(InvalidAbbrev, op.c)
        ELSE read_abbrev_loop(op.c, num_ops, i + 1, Append(operands, op.out), checks) :
        op \in {read_abbrev_op(c, checks)} })

read_abbrev(c, num_ops, checks) ==
    IF num_ops = 0 THEN RdErr(InvalidAbbrev, c)
    ELSE read_abbrev_loop(c, num_ops, 0, <<>>, checks)

read_single_abbreviated_record_operand(c, operand, checks) ==
    CASE operand.k = "Char6" ->
            Only({ IF ~value.ok THEN RdErr(ReadBits(value.err), value.c)
                   ELSE RdOk(NatBits(char6(BitsToNat(value.val))), value.c) :
                   value \in {read(c, 6)} })
      [] operand.k = "Literal" -> RdOk(operand.v, c)
      [] operand.k = "Fixed" ->
            Only({ IF ~r.ok THEN RdErr(ReadBits(r.err), r.c) ELSE RdOk(r.val, r.c) :
                   r \in {read(c, operand.w)} })
      [] operand.k = "Vbr" ->
            Only({ IF ~r.ok THEN RdErr(ReadBits(r.err), r.c) ELSE RdOk(r.val, r.c) :
                   r \in {read_vbr(c, operand.w, checks)} })
      [] OTHER -> RdErr(InvalidAbbrev, c)

\* for op in ops { fields.push(read_single_abbreviated_record_operand(op)?) }
RECURSIVE read_operands(_, _, _, _)
read_operands(c, ops, fields, checks) ==
    IF ops = <<>> THEN RdOk(fields, c)
    ELSE Only({
        IF ~r.ok THEN r
        ELSE read_operands(r.c, Tail(ops), Append(fields, r.out), checks) :
        r \in {read_single_abbreviated_record_operand(c, Head(ops), checks)} })

\* for _ in 0..length { elements.push(read_single_abbreviated_record_operand(element)?) }
RECURSIVE read_elements(_, _, _, _, _)
read_elements(c, element, length, elements, checks) ==
    IF Len(elements) >= length THEN RdOk(elements, c)
    ELSE Only({
        IF ~r.ok THEN r
        ELSE read_elements(r.c, element, length, Append(elements, r.out), checks) :
        r \in {read_single_abbreviated_record_operand(c, element, checks)} })

\* Option<Payload>
NoPayload == [kind |-> "None", elements |-> <<>>, bytes |-> <<>>]
PayloadArray(elements) == [NoPayload EXCEPT !.kind = "Array", !.elements = elements]
PayloadChar6String(chars) == [NoPayload EXCEPT !.kind = "Char6String", !.elements = chars]
PayloadBlob(data) == [NoPayload EXCEPT !.kind = "Blob", !.bytes = data]

Record(id, fields, pay) == [id |-> id, fields |-> fields, payload |-> pay]

\* the payload of read_abbreviated_record: the array, or the blob between paddings
read_payload(c, last_operand, checks) ==
    Only({
        IF ~length.ok THEN RdErr(ReadBits(length.err), length.c)
        ELSE IF last_operand.k = "Array"
        THEN Only({
                IF ~els.ok THEN els
                ELSE IF last_operand.el.k = "Char6"
                     THEN RdOk(PayloadChar6String(els.out), els.c)
                     ELSE RdOk(PayloadArray(els.out), els.c) :
                els \in {read_elements(length.c, last_operand.el, AsUsize(length.val),
                                       <<>>, checks)} })
        ELSE Only({
            IF ~aligned.ok THEN RdErr(ReadBits(aligned.err), aligned.c)
            ELSE Only({
                IF ~data.ok THEN RdErr(ReadBits(data.err), data.c)
                ELSE Only({
                    IF ~padded.ok THEN RdErr(ReadBits(padded.err), padded.c)
                    ELSE RdOk(PayloadBlob(data.bytes), padded.c) :
                    padded \in {align32(data.c)} }) :
                data \in {read_bytes(aligned.c, AsUsize(length.val), checks)} }) :
            aligned \in {align32(length.c)} }) :
        length \in {read_vbr(c, 6, checks)} })

is_payload(operand) == operand.k \in {"Array", "Blob"}

read_abbreviated_record(c, abbrev, checks) ==
    Only({
        IF ~code.ok THEN code
        ELSE Only({
            IF ~fields.ok THEN fields
            ELSE IF ~is_payload(abbrev.operands[Len(abbrev.operands)])
                 THEN RdOk(Record(code.out, fields.out, NoPayload), fields.c)
                 ELSE Only({
                    IF ~pay.ok THEN pay
                    ELSE RdOk(Record(code.out, fields.out, pay.out), pay.c) :
                    pay \in {read_payload(fields.c,
                                     abbrev.operands[Len(abbrev.operands)], checks)} }) :
            fields \in {read_operands(code.c,
                            SubSeq(abbrev.operands, 2,
                                   Len(abbrev.operands)
                                     - (IF is_payload(abbrev.operands[Len(abbrev.operands)])
                                        THEN 1 ELSE 0)),
                            <<>>, checks)} }) :
        code \in {read_single_abbreviated_record_operand(c, abbrev.operands[1], checks)} })

\* the unabbreviated record of read_block and of read_block_info_block:
\* code, num_ops, and num_ops operands, all vbr6
RECURSIVE read_vbr6_operands(_, _, _, _)
read_vbr6_operands(c, num_ops, operands, checks) ==
    IF Len(operands) >= num_ops THEN RdOk(operands, c)
    ELSE Only({
        IF ~r.ok THEN RdErr(ReadBits(r.err), r.c)
        ELSE read_vbr6_operands(r.c, num_ops, Append(operands, r.val), checks) :
        r \in {read_vbr(c, 6, checks)} })

read_unabbreviated_record(c, checks) ==
    Only({
        IF ~code.ok THEN RdErr(ReadBits(code.err), code.c)
        ELSE Only({
            IF ~num_ops.ok THEN RdErr(ReadBits(num_ops.err), num_ops.c)
            ELSE Only({
                IF ~operands.ok THEN operands
                ELSE RdOk(Record(code.val, operands.out, NoPayload), operands.c) :
                operands \in {read_vbr6_operands(num_ops.c, AsUsize(num_ops.val),
                                                 <<>>, checks)} }) :
            num_ops \in {read_vbr(code.c, 6, checks)} }) :
        code \in {read_vbr(c, 6, checks)} })

-----------------------------------------------------------------------------
(* Signature::parse, src/src/bitcode.rs; a u32 is its four bytes, the least  *)
(* significant first                                                         *)

\* 0x0B17C0DE
LLVM_BITCODE_WRAPPER_MAGIC == <<222, 192, 23, 11>>

U32Zero == <<0, 0, 0, 0>>

\* u32::from_le_bytes of the four bytes of data from byte index i (from 0)
from_le_bytes(data, i) == SubSeq(data, i + 1, i + 4)

\* a u32 as usize: a number when it is below 2^24; beyond, 2^24 stands for
\* every length that no data of the model has
u32_as_usize(w) ==
    IF w[4] = 0 THEN w[1] + 256 * w[2] + 65536 * w[3] ELSE 16777216

\* usize as u32, a cast that keeps the low 32 bits
as_u32(n) == <<n % 256, (n \div 256) % 256, (n \div 65536) % 256, (n \div 16777216) % 256>>

\* Option<(Signature, &[u8])>: some, the fields of the signature, and the
\* remaining data
Signature(version, magic, magic2, offset, size, cpu_type, stream) ==
    [some |-> TRUE, version |-> version, magic |-> magic, magic2 |-> magic2,
     offset |-> offset, size |-> size, cpu_type |-> cpu_type, stream |-> stream]

NoSignature ==
    [Signature(U32Zero, U32Zero, U32Zero, U32Zero, U32Zero, U32Zero, <<>>)
        EXCEPT !.some = FALSE]

\* data.get(lo..hi), had it cut the range at the end of the data
slice_get_clamped(data, lo, hi) ==
    IF lo > hi \/ lo > Len(data) THEN [some |-> FALSE, bytes |-> <<>>]
    ELSE [some |-> TRUE,
          bytes |-> SubSeq(data, lo + 1, IF hi > Len(data) THEN Len(data) ELSE hi)]

\* data.get(lo..hi): None when the range ends after the data
slice_get(data, lo, hi) ==
    IF lo > hi \/ hi > Len(data) THEN [some |-> FALSE, bytes |-> <<>>]
    ELSE [some |-> TRUE, bytes |-> SubSeq(data, lo + 1, hi)]

\* the wrapper branch, had it taken the data from offset to its end
parse_wrapped_to_end(data, magic, version, offset, size, cpu_id) ==
    Only({
        IF ~region.some \/ ~slice_get(data, u32_as_usize(offset),
                                      u32_as_usize(offset) + u32_as_usize(size)).some
           \/ Len(region.bytes) < 4
        THEN NoSignature
        ELSE Signature(version, magic, from_le_bytes(region.bytes, 0), offset, size,
                       cpu_id, SubSeq(region.bytes, 5, Len(region.bytes))) :
        region \in {slice_get(data, u32_as_usize(offset), Len(data))} })

\* data.get(offset..offset + size)?.split_first_chunk::<4>()? of the wrapper,
\* and the signature made of the words
parse_wrapped(data, magic, version, offset, size, cpu_id) ==
    Only({
        IF ~region.some \/ Len(region.bytes) < 4 THEN NoSignature
        ELSE Signature(version, magic, from_le_bytes(region.bytes, 0), offset, size,
                       cpu_id, SubSeq(region.bytes, 5, Len(region.bytes))) :
        region \in {slice_get(data, u32_as_usize(offset),
                              u32_as_usize(offset) + u32_as_usize(size))} })

\* Signature::parse, had the raw branch kept the magic in the remaining data
parse_keeping_magic(data) ==
    IF Len(data) < 4 THEN NoSignature
    ELSE IF from_le_bytes(data, 0) # LLVM_BITCODE_WRAPPER_MAGIC
         THEN Signature(U32Zero, from_le_bytes(data, 0), U32Zero, as_u32(4),
                        as_u32(Len(data) - 4), U32Zero, data)
    ELSE IF Len(data) < 20 THEN NoSignature
    ELSE parse_wrapped(data, from_le_bytes(data, 0), from_le_bytes(data, 4),
                       from_le_bytes(data, 8), from_le_bytes(data, 12),
                       from_le_bytes(data, 16))

\* Signature::parse
parse(data) ==
    IF Len(data) < 4 THEN NoSignature
    ELSE IF from_le_bytes(data, 0) # LLVM_BITCODE_WRAPPER_MAGIC
         THEN Signature(U32Zero, from_le_bytes(data, 0), U32Zero, as_u32(4),
                        as_u32(Len(data) - 4), U32Zero, SubSeq(data, 5, Len(data)))
    ELSE IF Len(data) < 20 THEN NoSignature
    ELSE parse_wrapped(data, from_le_bytes(data, 0), from_le_bytes(data, 4),
                       from_le_bytes(data, 8), from_le_bytes(data, 12),
                       from_le_bytes(data, 16))

-----------------------------------------------------------------------------
(* CollectingVisitor, src/src/visitor.rs, refusing the blocks of `reject`;   *)
(* elements are BitcodeElement::Block(id, elements) and ::Record(record)     *)

TOP_LEVEL_BLOCK_ID == 0..63

ElBlock(id, elements) ==
    [block |-> TRUE, id |-> id, elements |-> elements,
     record |-> Record({}, <<>>, NoPayload)]
ElRecord(record) ==
    [block |-> FALSE, id |-> {}, elements |-> <<>>, record |-> record]

CollectingVisitor_new(reject) ==
    [stack |-> <<[id |-> TOP_LEVEL_BLOCK_ID, elements |-> <<>>]>>,
     reject |-> reject, panicked |-> FALSE]

\* last.1.push(element), where last = self.stack.last_mut().unwrap()
push_to_last(v, element) ==
    IF v.stack = <<>> THEN [v EXCEPT !.panicked = TRUE]
    ELSE [v EXCEPT !.stack[Len(v.stack)].elements = Append(@, element)]

should_enter_block(v, id) == id \notin v.reject

\* the visitor after should_enter_block(id)
entered(v, id) ==
    IF should_enter_block(v, id)
    THEN [v EXCEPT !.stack = Append(@, [id |-> id, elements |-> <<>>])]
    ELSE v

did_exit_block(v) ==
    IF v.stack = <<>> THEN v
    ELSE push_to_last([v EXCEPT !.stack = SubSeq(@, 1, Len(@) - 1)],
                      ElBlock(v.stack[Len(v.stack)].id, v.stack[Len(v.stack)].elements))

visit(v, record) == push_to_last(v, ElRecord(record))

-----------------------------------------------------------------------------
(* The state machine of Bitcode::read: one action for the call and one for   *)
(* each kind of iteration of the loops of read_block and                     *)
(* read_block_info_block. rd.stack holds the calls of read_block and         *)
(* read_block_info_block that have not returned, the innermost last.         *)
(* start, limit, inst and origin are history: where a block's content starts *)
(* and where its declared length ends, the number of the block instance, and *)
(* where an abbreviation was defined (0: in BLOCKINFO; else the instance)    *)

NoBid == [some |-> FALSE, id |-> {}]

BlockFrame(id, abbrev_width, start, limit, inst) ==
    [info |-> FALSE, id |-> id, abbrev_width |-> abbrev_width,
     current_block_id |-> NoBid, start |-> start, limit |-> limit, inst |-> inst]

InfoFrame(abbrev_width, start, limit) ==
    [info |-> TRUE, id |-> {}, abbrev_width |-> abbrev_width,
     current_block_id |-> NoBid, start |-> start, limit |-> limit, inst |-> 0]

\* a callback made on the visitor, by the call of read_block for block `id`
\* whose iteration started at bit `at`
Callback(cb, id, arg, ret, at) ==
    [cb |-> cb, id |-> id, arg |-> arg, ret |-> ret, at |-> at]

\* the argument of a callback: a signature's magic, a block id, or a record
\* start and limit are history: where the content of the block starts, and
\* where its declared length ends
ArgMagic(magic) ==
    [magic |-> magic, block_id |-> {}, start |-> 0, limit |-> 0,
     record |-> Record({}, <<>>, NoPayload)]
ArgBlock(block_id, start, limit) ==
    [ArgMagic(U32Zero) EXCEPT !.block_id = block_id, !.start = start, !.limit = limit]
ArgRecord(record) == [ArgMagic(U32Zero) EXCEPT !.record = record]
NoArg == ArgMagic(U32Zero)

\* the last iteration: where it started, the call it ran in, the abbreviation
\* id it read, the abbreviations of the block's id it found, and the
\* unabbreviated record it read
NoStep == [op |-> "", pre |-> 0, frame |-> BlockFrame(TOP_LEVEL_BLOCK_ID, 2, 0, 0, 1),
           k |-> 0, table |-> <<>>, ok |-> TRUE,
           record |-> [ok |-> FALSE, out |-> <<>>]]

\* self.global_abbrevs.get(&id), an empty list when there is none
abbrevs_of(table, id) == IF id \in DOMAIN table THEN table[id] ELSE <<>>

\* self.global_abbrevs.entry(id).or_insert_with(Vec::new).push(abbrev)
push_abbrev(table, id, abbrev) ==
    [x \in DOMAIN table \cup {id} |->
        IF x = id THEN Append(abbrevs_of(table, id), abbrev) ELSE table[x]]

\* read_block_header, had the new block kept the width of 2 of the top level
read_block_header_width_of_top(c, checks) ==
    Only({
        IF ~block_id.ok THEN RdErr(ReadBits(block_id.err), block_id.c)
        ELSE Only({
            IF ~width.ok THEN RdErr(ReadBits(width.err), width.c)
            ELSE Only({
                IF ~aligned.ok THEN RdErr(ReadBits(aligned.err), aligned.c)
                ELSE Only({
                    IF ~words.ok THEN RdErr(ReadBits(words.err), words.c)
                    ELSE RdOk([block_id |-> block_id.val,
                               new_abbrev_width |-> 2,
                               block_length |-> AsUsize(words.val) * 4], words.c) :
                    words \in {read(aligned.c, 32)} }) :
                aligned \in {align32(width.c)} }) :
            width \in {read_vbr(block_id.c, 4, checks)} }) :
        block_id \in {read_vbr(c, 8, checks)} })

\* block_id, new_abbrev_width and block_length of an ENTER_SUBBLOCK
read_block_header(c, checks) ==
    Only({
        IF ~block_id.ok THEN RdErr(ReadBits(block_id.err), block_id.c)
        ELSE Only({
            IF ~width.ok THEN RdErr(ReadBits(width.err), width.c)
            ELSE Only({
                IF ~aligned.ok THEN RdErr(ReadBits(aligned.err), aligned.c)
                ELSE Only({
                    IF ~words.ok THEN RdErr(ReadBits(words.err), words.c)
                    ELSE RdOk([block_id |-> block_id.val,
                               new_abbrev_width |-> AsWidth(width.val),
                               block_length |-> AsUsize(words.val) * 4], words.c) :
                    words \in {read(aligned.c, 32)} }) :
                aligned \in {align32(width.c)} }) :
            width \in {read_vbr(block_id.c, 4, checks)} }) :
        block_id \in {read_vbr(c, 8, checks)} })

\* num_ops and the abbreviation of a DEFINE_ABBREVIATION
read_define_abbreviation(c, checks) ==
    Only({
        IF ~num_ops.ok THEN RdErr(ReadBits(num_ops.err), num_ops.c)
        ELSE read_abbrev(num_ops.c, AsUsize(num_ops.val), checks) :
        num_ops \in {read_vbr(c, 5, checks)} })

Looping == rd.phase = "run"

\* the call that is running
Frame == rd.stack[Len(rd.stack)]

Returned == SubSeq(rd.stack, 1, Len(rd.stack) - 1)

\* let abbrev_id = self.cursor.read(abbrev_width)
ReadAbbrevId == read(cur, Frame.abbrev_width)

Dispatch(ids) ==
    /\ Looping
    /\ Frame.info \/ ~is_at_end(cur)
    /\ ReadAbbrevId.ok
    /\ AsUsize(ReadAbbrevId.val) \in ids

\* the iteration `op` ended with the cursor c: with the error e (NoError when
\* it did not fail), the calls `stack` still running, and the callbacks evs made
Went(op, c, e, stack, table, info, v, evs) ==
    /\ cur' = c
    /\ rd' = [rd EXCEPT
                !.phase = IF e # NoError \/ v.panicked \/ stack = <<>>
                          THEN "done" ELSE "run",
                !.result = IF v.panicked THEN ReadBits("panic") ELSE e,
                !.stack = IF e # NoError \/ v.panicked THEN rd.stack ELSE stack,
                !.global_abbrevs = table,
                !.block_info = info,
                !.visitor = v,
                !.events = @ \o evs,
                !.instances = @ + Len(SelectSeq(evs,
                                   LAMBDA ev : ev.cb = "should_enter_block" /\ ev.ret)),
                !.step = [op |-> op, pre |-> Pos(cur), frame |-> Frame,
                          k |-> IF ReadAbbrevId.ok THEN AsUsize(ReadAbbrevId.val) ELSE 0,
                          table |-> IF Frame.info THEN <<>>
                                    ELSE abbrevs_of(rd.global_abbrevs, Frame.id),
                          ok |-> e = NoError /\ ~v.panicked,
                          record |->
                            IF ReadAbbrevId.ok /\ AsUsize(ReadAbbrevId.val) = 3
                            THEN Only({[ok |-> r.ok, out |-> r.out] :
                                    r \in {read_unabbreviated_record(ReadAbbrevId.c,
                                                                     overflow_checks)}})
                            ELSE [ok |-> FALSE, out |-> <<>>]]]
    /\ UNCHANGED <<sub, it, last, env>>

Failed(op, c, e) ==
    Went(op, c, e, rd.stack, rd.global_abbrevs, rd.block_info, rd.visitor, <<>>)

\* Bitcode::read, had it not looked at what validate returned
read_result_unvalidated(sig, valid) ==
    IF ~sig.some THEN InvalidSignature(U32Zero) ELSE NoError

\* what Bitcode::read returns before it calls read_block, NoError when it
\* goes on to call it
read_result(sig, valid) ==
    IF ~sig.some THEN InvalidSignature(U32Zero)
    ELSE IF ~valid THEN InvalidSignature(sig.magic)
    ELSE NoError

\* Bitcode::new or Bitcode::read up to the call of read_block. Bitcode::new
\* does not call validate and has a CollectingVisitor; the visitor of
\* Bitcode::read is a collecting visitor that refuses the blocks rd.refuse
BitcodeRead ==
    /\ rd.phase = "start"
    /\ \E sig \in {parse(rd.data)}, valid \in BOOLEAN :
        /\ sig.some \/ valid
        /\ rd.pass = 2 => valid
        /\ rd.api = "new" => valid
        /\ cur' = Cursor_new(sig.stream)
        /\ rd' = [rd EXCEPT
                    !.phase = IF read_result(sig, valid) = NoError THEN "run" ELSE "done",
                    !.result = read_result(sig, valid),
                    !.events = IF sig.some /\ rd.api = "read"
                               THEN <<Callback("validate", {}, ArgMagic(sig.magic), valid, 0)>>
                               ELSE <<>>,
                    !.stack = IF read_result(sig, valid) = NoError
                              THEN <<BlockFrame(TOP_LEVEL_BLOCK_ID, 2, 0,
                                                8 * Len(sig.stream), 1)>>
                              ELSE <<>>,
                    !.visitor = CollectingVisitor_new(rd.refuse),
                    !.global_abbrevs = <<>>,
                    !.block_info = <<>>,
                    !.instances = 1,
                    !.step = NoStep]
    /\ UNCHANGED <<sub, it, last, env>>

\* the loop of read_block ends: while !self.cursor.is_at_end()
EndOfInput ==
    /\ Looping
    /\ ~Frame.info
    /\ is_at_end(cur)
    /\ IF Frame.id # TOP_LEVEL_BLOCK_ID
       THEN Failed("end_of_input", cur, MissingEndBlock(Frame.id))
       ELSE Went("end_of_input", cur, NoError, Returned, rd.global_abbrevs,
                 rd.block_info, rd.visitor, <<>>)

\* self.cursor.read(abbrev_width)? fails
ReadAbbrevIdFails ==
    /\ Looping
    /\ Frame.info \/ ~is_at_end(cur)
    /\ ~ReadAbbrevId.ok
    /\ Failed("abbrev_id", ReadAbbrevId.c, ReadBits(ReadAbbrevId.err))

EndBlock ==
    /\ Dispatch({0})
    /\ \E aligned \in {align32(ReadAbbrevId.c)} :
        IF ~aligned.ok THEN Failed("end_block", aligned.c, ReadBits(aligned.err))
        ELSE IF Frame.info
        THEN Went("end_block", aligned.c, NoError, Returned, rd.global_abbrevs,
                  rd.block_info, rd.visitor, <<>>)
        ELSE Went("end_block", aligned.c, NoError, Returned, rd.global_abbrevs,
                  rd.block_info, did_exit_block(rd.visitor),
                  <<Callback("did_exit_block", Frame.id, NoArg, TRUE, Pos(cur))>>)

\* read_block_info_block, had it taken every abbreviation id as read_block does
block_info_abbrev_error_as_block(abbrev_id) == NoError

\* the error of read_block_info_block for an abbreviation id, NoError for
\* END_BLOCK, DEFINE_ABBREVIATION and UNABBREVIATED_RECORD
block_info_abbrev_error(abbrev_id) ==
    IF abbrev_id >= 4 THEN NoSuchAbbrev({}, abbrev_id)
    ELSE IF abbrev_id = 1 THEN NestedBlockInBlockInfo
    ELSE NoError

EnterSubBlock ==
    /\ Dispatch({1})
    /\ IF Frame.info /\ block_info_abbrev_error(1) # NoError
       THEN Failed("enter_sub_block", ReadAbbrevId.c, block_info_abbrev_error(1))
       ELSE \E h \in {read_block_header(ReadAbbrevId.c, overflow_checks)} :
            IF ~h.ok THEN Failed("enter_sub_block", h.c, h.e)
            ELSE IF h.out.block_id = {}
            THEN Went("enter_block_info", h.c, NoError,
                      Append(rd.stack, InfoFrame(h.out.new_abbrev_width, Pos(h.c),
                                                 Pos(h.c) + 8 * h.out.block_length)),
                      rd.global_abbrevs, rd.block_info, rd.visitor, <<>>)
            ELSE IF ~should_enter_block(rd.visitor, h.out.block_id)
            THEN \E skipped \in {skip_bytes(h.c, h.out.block_length, overflow_checks)} :
                    Went("skip_block", skipped.c,
                         IF skipped.ok THEN NoError ELSE ReadBits(skipped.err),
                         rd.stack, rd.global_abbrevs, rd.block_info,
                         entered(rd.visitor, h.out.block_id),
                         <<Callback("should_enter_block", Frame.id,
                                    ArgBlock(h.out.block_id, Pos(h.c),
                                             Pos(h.c) + 8 * h.out.block_length),
                                    FALSE, Pos(cur))>>)
            ELSE Went("enter_sub_block", h.c, NoError,
                      Append(rd.stack,
                             BlockFrame(h.out.block_id, h.out.new_abbrev_width, Pos(h.c),
                                        Pos(h.c) + 8 * h.out.block_length,
                                        rd.instances + 1)),
                      rd.global_abbrevs, rd.block_info,
                      entered(rd.visitor, h.out.block_id),
                      <<Callback("should_enter_block", Frame.id,
                                    ArgBlock(h.out.block_id, Pos(h.c),
                                             Pos(h.c) + 8 * h.out.block_length),
                                 TRUE, Pos(cur))>>)

\* in read_block the abbreviation joins those of the block's id, in
\* read_block_info_block those of the current block id
DefineAbbreviation ==
    /\ Dispatch({2})
    /\ IF Frame.info /\ ~Frame.current_block_id.some
       THEN Failed("define_abbreviation", ReadAbbrevId.c, MissingSetBid)
       ELSE \E abbrev \in {read_define_abbreviation(ReadAbbrevId.c, overflow_checks)} :
            IF ~abbrev.ok THEN Failed("define_abbreviation", abbrev.c, abbrev.e)
            ELSE Went("define_abbreviation", abbrev.c, NoError, rd.stack,
                      push_abbrev(rd.global_abbrevs,
                                  IF Frame.info THEN Frame.current_block_id.id
                                  ELSE Frame.id,
                                  [operands |-> abbrev.out.operands,
                                   origin |-> Frame.inst]),
                      rd.block_info, rd.visitor, <<>>)

\* std::str::from_utf8(bytes).is_ok(): the well-formed byte sequences of UTF-8
RECURSIVE is_utf8(_)
is_utf8(bytes) ==
    LET n == Len(bytes)
        b(i) == bytes[i]
        cont(i) == i <= n /\ b(i) \in 128..191
        rest(k) == is_utf8(SubSeq(bytes, k + 1, n))
    IN  IF n = 0 THEN TRUE
        ELSE IF b(1) < 128 THEN rest(1)
        ELSE IF b(1) \in 194..223 THEN cont(2) /\ rest(2)
        ELSE IF b(1) = 224 THEN n >= 2 /\ b(2) \in 160..191 /\ cont(3) /\ rest(3)
        ELSE IF b(1) \in (225..236) \cup (238..239) THEN cont(2) /\ cont(3) /\ rest(3)
        ELSE IF b(1) = 237 THEN n >= 2 /\ b(2) \in 128..159 /\ cont(3) /\ rest(3)
        ELSE IF b(1) = 240
             THEN n >= 2 /\ b(2) \in 144..191 /\ cont(3) /\ cont(4) /\ rest(4)
        ELSE IF b(1) \in 241..243 THEN cont(2) /\ cont(3) /\ cont(4) /\ rest(4)
        ELSE IF b(1) = 244
             THEN n >= 2 /\ b(2) \in 128..143 /\ cont(3) /\ cont(4) /\ rest(4)
        ELSE FALSE

\* String::from_utf8(operands as u8).unwrap_or_else(|_| "<invalid>"), as bytes
name_of(operands) ==
    LET bytes == [i \in 1..Len(operands) |-> AsU8(operands[i])]
    IN  IF is_utf8(bytes) THEN bytes ELSE <<60, 105, 110, 118, 97, 108, 105, 100, 62>>

\* BlockInfo::default()
BlockInfo_default == [name |-> <<>>, record_names |-> <<>>]

\* self.block_info.entry(block_id).or_insert_with(BlockInfo::default)
block_info_of(info, block_id) ==
    IF block_id \in DOMAIN info THEN info[block_id] ELSE BlockInfo_default

set_block_name(info, block_id, name) ==
    [x \in DOMAIN info \cup {block_id} |->
        IF x = block_id THEN [block_info_of(info, block_id) EXCEPT !.name = name]
        ELSE info[x]]

set_record_name(info, block_id, record_id, name) ==
    [x \in DOMAIN info \cup {block_id} |->
        IF x = block_id
        THEN [block_info_of(info, block_id) EXCEPT !.record_names =
                 [y \in DOMAIN @ \cup {record_id} |->
                     IF y = record_id THEN name ELSE @[y]]]
        ELSE info[x]]

\* the error of a record of BLOCKINFO, had BlockName and SetRecordName not
\* asked for a current block id
block_info_record_error_without_bid(code, operands, bid) ==
    IF code \notin {{0}, {1}, {0, 1}} THEN InvalidBlockInfoRecord(code)
    ELSE IF code = {0}
    THEN IF Len(operands) # 1 THEN InvalidBlockInfoRecord(code) ELSE NoError
    ELSE IF code = {0, 1} /\ operands = <<>> THEN InvalidBlockInfoRecord(code)
    ELSE NoError

\* the error that a record of BLOCKINFO returns, NoError when it returns
\* none: SetBid = 1, BlockName = 2, SetRecordName = 3
block_info_record_error(code, operands, bid) ==
    IF code \notin {{0}, {1}, {0, 1}} THEN InvalidBlockInfoRecord(code)
    ELSE IF code = {0}
    THEN IF Len(operands) # 1 THEN InvalidBlockInfoRecord(code) ELSE NoError
    ELSE IF ~bid.some THEN MissingSetBid
    ELSE IF code = {0, 1} /\ operands = <<>> THEN InvalidBlockInfoRecord(code)
    ELSE NoError

\* the record of a BLOCKINFO block
BlockInfoRecord(c, record) ==
    LET code == record.id
        operands == record.fields
        bid == Frame.current_block_id
    IN  IF block_info_record_error(code, operands, bid) # NoError
        THEN Failed("block_info_record", c, block_info_record_error(code, operands, bid))
        ELSE IF code = {0}
        THEN Went("block_info_record", c, NoError,
                  Append(Returned,
                         [Frame EXCEPT !.current_block_id =
                                           [some |-> TRUE, id |-> operands[1]]]),
                  rd.global_abbrevs, rd.block_info, rd.visitor, <<>>)
        ELSE IF code = {1}
        THEN Went("block_info_record", c, NoError, rd.stack, rd.global_abbrevs,
                  set_block_name(rd.block_info, bid.id, name_of(operands)),
                  rd.visitor, <<>>)
        ELSE Went("block_info_record", c, NoError, rd.stack, rd.global_abbrevs,
                  set_record_name(rd.block_info, bid.id, operands[1],
                                  name_of(Tail(operands))),
                  rd.visitor, <<>>)

UnabbreviatedRecord ==
    /\ Dispatch({3})
    /\ \E record \in {read_unabbreviated_record(ReadAbbrevId.c, overflow_checks)} :
        IF ~record.ok THEN Failed("unabbreviated_record", record.c, record.e)
        ELSE IF Frame.info THEN BlockInfoRecord(record.c, record.out)
        ELSE Went("unabbreviated_record", record.c, NoError, rd.stack,
                  rd.global_abbrevs, rd.block_info, visit(rd.visitor, record.out),
                  <<Callback("visit", Frame.id, ArgRecord(record.out), TRUE, Pos(cur))>>)

\* an abbreviation id that is no BuiltinAbbreviationId
AbbreviatedRecord ==
    /\ Dispatch(4..HugeLen)
    /\ \E abbrev_id \in {AsUsize(ReadAbbrevId.val)} :
        IF Frame.info /\ block_info_abbrev_error(abbrev_id) # NoError
        THEN Failed("abbreviated_record", ReadAbbrevId.c,
                    block_info_abbrev_error(abbrev_id))
        ELSE \E abbrev_info \in {abbrevs_of(rd.global_abbrevs, Frame.id)} :
            IF abbrev_id - 4 >= Len(abbrev_info)
            THEN Failed("abbreviated_record", ReadAbbrevId.c,
                        NoSuchAbbrev(Frame.id, abbrev_id))
            ELSE \E record \in {read_abbreviated_record(ReadAbbrevId.c,
                                    abbrev_info[abbrev_id - 3], overflow_checks)} :
                IF ~record.ok THEN Failed("abbreviated_record", record.c, record.e)
                ELSE Went("abbreviated_record", record.c, NoError, rd.stack,
                          rd.global_abbrevs, rd.block_info,
                          visit(rd.visitor, record.out),
                          <<Callback("visit", Frame.id, ArgRecord(record.out), TRUE, Pos(cur))>>)

\* the same data is read once more, by a visitor that refuses the blocks
\* rd.other
ReadAgain ==
    /\ rd.phase = "done"
    /\ rd.api = "read"
    /\ rd.pass = 1
    /\ rd.result = NoError
    /\ rd' = [rd EXCEPT !.phase = "start", !.pass = 2, !.refuse = rd.other,
                        !.step = NoStep,
                        !.first = [events |-> rd.events,
                                   elements |-> rd.visitor.stack[1].elements]]
    /\ cur' = Cursor_new(input)
    /\ UNCHANGED <<sub, it, last, env>>

-----------------------------------------------------------------------------
(* The bitstreams read: written from items, a block with its items inside    *)

NoItems == <<>>

Item == [t |-> "", k |-> 0, code |-> 0, ops |-> <<>>, ab |-> Abbreviation(<<>>, NoOperand),
         fill |-> 0, len |-> 0, id |-> 0, width |-> 2, items |-> NoItems, dw |-> 0,
         end |-> TRUE]

\* an UNABBREVIATED_RECORD of a code and operands, all numbers
Rec(code, ops) == [Item EXCEPT !.t = "record", !.code = code, !.ops = ops]
\* a DEFINE_ABBREVIATION
Def(ab) == [Item EXCEPT !.t = "define", !.ab = ab]
\* a record abbreviated by ab, written with the abbreviation id k
Use(k, ab, fill, len) ==
    [Item EXCEPT !.t = "abbrev", !.k = k, !.ab = ab, !.fill = fill, !.len = len]
\* the abbreviation id k alone
Id(k) == [Item EXCEPT !.t = "id", !.k = k]
\* END_BLOCK and its padding, where no block ends
End == [Item EXCEPT !.t = "end"]
\* a block: ENTER_SUBBLOCK, the items, END_BLOCK when end; its word count is
\* that of its content plus dw
Blk(id, width, items, dw, end) ==
    [Item EXCEPT !.t = "block", !.id = id, !.width = width, !.items = items,
                 !.dw = dw, !.end = end]

IdBits(k, width) == FixedBits(NatBits(k), width)

\* an operand of a DEFINE_ABBREVIATION: the literal flag, then the value, or
\* the encoding and its width
RECURSIVE OperandBits(_)
OperandBits(op) ==
    CASE op.k = "Literal" -> <<TRUE>> \o VbrBits(op.v, 8)
      [] op.k = "Fixed" -> <<FALSE>> \o FixedBits({0}, 3) \o VbrBits(NatBits(op.w), 5)
      [] op.k = "Vbr" -> <<FALSE>> \o FixedBits({1}, 3) \o VbrBits(NatBits(op.w), 5)
      [] op.k = "Array" -> <<FALSE>> \o FixedBits({0, 1}, 3) \o OperandBits(op.el)
      [] op.k = "Char6" -> <<FALSE>> \o FixedBits({2}, 3)
      [] op.k = "Blob" -> <<FALSE>> \o FixedBits({0, 2}, 3)

\* the operands of an abbreviation: its fields, then its payload
OperandsOf(ab) ==
    IF ab.payload.k = "None" THEN ab.fields ELSE Append(ab.fields, ab.payload)

\* numabbrevops counts an array and its element type as two
NumOps(ab) == Len(ab.fields) + (CASE ab.payload.k = "None" -> 0
                                  [] ab.payload.k = "Blob" -> 1
                                  [] ab.payload.k = "Array" -> 2)

DefineBits(ab) ==
    VbrBits(NatBits(NumOps(ab)), 5)
        \o Concat([i \in 1..Len(OperandsOf(ab)) |-> OperandBits(OperandsOf(ab)[i])])

\* the record AbbrevRecord(ab, fill, len, ...) written at bit position pos
UseBits(ab, fill, len, pos) == AbbrevRecord(ab, fill, len, pos, 0).bits

\* block id, new abbreviation width, padding; the word count follows
HeaderBits(id, width, pos) ==
    LET head == VbrBits(NatBits(id), 8) \o VbrBits(NatBits(width), 4)
    IN  head \o PadTo32(pos + Len(head))

RECURSIVE ItemsBits(_, _, _)
\* the content of a block, with END_BLOCK and its padding when end
ContentBits(items, width, end) ==
    LET body == ItemsBits(items, 0, width)
    IN  IF end THEN body \o IdBits(0, width) \o PadTo32(Len(body) + width) ELSE body

\* the items written from bit position pos with abbreviation ids of a width
ItemsBits(items, pos, width) ==
    IF items = <<>> THEN <<>>
    ELSE LET i == Head(items)
             id == IdBits(IF i.t = "record" THEN 3
                          ELSE IF i.t = "define" THEN 2
                          ELSE IF i.t = "block" THEN 1
                          ELSE i.k, width)
             at == pos + width
             bits == CASE i.t = "record" ->
                            FullRecordBits(NatBits(i.code),
                                           [j \in 1..Len(i.ops) |-> NatBits(i.ops[j])])
                       [] i.t = "define" -> DefineBits(i.ab)
                       [] i.t = "abbrev" -> UseBits(i.ab, i.fill, i.len, at)
                       [] i.t = "id" -> <<>>
                       [] i.t = "end" -> PadTo32(at)
                       [] i.t = "block" ->
                            LET content == ContentBits(i.items, i.width, i.end)
                            IN  HeaderBits(i.id, i.width, at)
                                    \o FixedBits(NatBits((Len(content) \div 32) + i.dw), 32)
                                    \o content
         IN  id \o bits \o ItemsBits(Tail(items), at + Len(bits), width)

\* the bytes of a bit sequence, the last byte filled with zero bits
BitsBytes(bits) ==
    [i \in 1..((Len(bits) + 7) \div 8) |->
        BitsToNat({j \in 0..7 : 8 * (i - 1) + j < Len(bits) /\ bits[8 * (i - 1) + j + 1]})]

\* 'B' 'C' 0xC0 0xDE
Magic == <<66, 67, 192, 222>>

\* the data of a bitcode file with the items at its top level
Bitcode(items) == Magic \o BitsBytes(ItemsBits(items, 0, 2))

\* abbreviations of one literal, of scalars, with a blob, and with an array
AbLiteral == Abbreviation(<<Literal({0, 1, 2})>>, NoOperand)
AbScalars == Abbreviation(<<Fixed(3), Vbr(6), Char6>>, NoOperand)
AbBlob    == Abbreviation(<<Literal({0}), Fixed(8)>>, Blob)
AbArray   == Abbreviation(<<Vbr(4)>>, Array(Char6))

\* an unabbreviated record of n operands
RecN(fill, n) == Rec(1 + fill, [j \in 1..n |-> 8 * fill + j])

\* BLOCKINFO that defines abbreviations for the blocks bid
Info(bid, abs) ==
    Blk(0, 2, <<Rec(1, <<bid>>)>> \o [j \in 1..Len(abs) |-> Def(abs[j])], 0, TRUE)

\* two global and one local abbreviation of block 8, used by the ids 4 to 7
GlobalBeforeLocal(fill) ==
    <<Info(8, <<AbLiteral, AbScalars>>),
      Blk(8, 3, <<Def(AbArray), Use(4, AbLiteral, fill, 0), Use(5, AbScalars, fill, 0),
                  Use(6, AbArray, fill, MaxPayloadLen), Id(7)>>, 0, TRUE)>>

\* a block that defines an abbreviation, and a later block of the id b that
\* uses the id of it
LaterInstance(ab, fill, len, b) ==
    <<Blk(8, 3, <<Def(ab), Use(4, ab, fill, len)>>, 0, TRUE),
      Blk(b, 3, <<Use(4, ab, fill, len), RecN(fill, 1)>>, 0, TRUE)>>

\* two blocks 8 that each define an abbreviation and use its id
Redefined(a, c, fill) ==
    <<Blk(8, 3, <<Def(a), Use(4, a, fill, 1)>>, 0, TRUE),
      Blk(8, 3, <<Def(c), Use(4, c, fill, 1)>>, 0, TRUE)>>

\* the same, the second block inside the first
NestedInstance(ab, fill, len, b) ==
    <<Blk(8, 3, <<Def(ab), Blk(b, 3, <<Use(4, ab, fill, len)>>, 0, TRUE),
                  Use(4, ab, fill, len)>>, 0, TRUE)>>

\* blocks whose word count is that of their content plus dw, dw words of
\* unabbreviated records behind the first
Counted(fill, n, dw, b) ==
    <<Blk(8, 2, <<RecN(fill, n), RecN(fill, 3)>>, dw, TRUE)>>
        \o (IF dw > 0 THEN <<RecN(fill, 3)>> ELSE <<>>)
        \o <<Blk(b, 2, <<RecN(1 - fill, n)>>, 0, TRUE), RecN(fill, 3)>>

\* a block of one word without END_BLOCK, and what follows it
Unended(fill, rest) == <<Blk(8, 2, <<RecN(fill, 3)>>, 0, FALSE)>> \o rest

\* BLOCKINFO inside a block 9, and a block 8 that uses what it defines
InfoInside(fill, n) ==
    <<Blk(9, 3, <<RecN(fill, n), Info(8, <<AbScalars>>)>>, 0, TRUE),
      Blk(8, 3, <<Use(4, AbScalars, fill, 0)>>, 0, TRUE)>>

\* blocks 8 and 9 in each other, with records and a local abbreviation
Nested(fill, n, a, b) ==
    <<RecN(fill, 3),
      Blk(a, 3, <<RecN(fill, n), Def(AbBlob), Blk(b, 2, <<RecN(fill, n)>>, 0, TRUE),
                  Use(4, AbBlob, fill, n)>>, 0, TRUE),
      Blk(b, 2, <<RecN(1 - fill, n)>>, 0, TRUE)>>

\* names of block 8 and of its record 1 in BLOCKINFO, and a record it refuses
Named(fill, n) ==
    <<Blk(0, 2, <<Rec(1, <<8>>), Rec(2, [j \in 1..n |-> 77 + 128 * fill]),
                  Rec(3, [j \in 1..n |-> 65 + j]), Rec(3 * fill + 1, <<>>)>>, 0, TRUE)>>

\* what BLOCKINFO refuses: a definition or a name before SETBID, a block, an
\* abbreviated record
BadInfo(i) ==
    <<Blk(0, 3, <<CASE i = 0 -> Def(AbLiteral)
                    [] i = 1 -> Rec(2, <<77>>)
                    [] i = 2 -> Blk(8, 2, <<>>, 0, TRUE)
                    [] i = 3 -> Id(4)
                    [] i = 4 -> Rec(3, <<1, 66>>)
                    [] i = 5 -> Rec(1, <<>>)
                    [] i = 6 -> Rec(1, <<8, 9>>)
                    [] i = 7 -> Id(5)>>, 0, TRUE)>>

\* BLOCKINFO with a SETBID, names and an abbreviation, and a second BLOCKINFO
\* without a SETBID of its own
SecondInfo(i) ==
    <<Blk(0, 2, <<Rec(1, <<8>>), Rec(2, <<77>>), Rec(3, <<1, 66>>), Def(AbLiteral)>>,
          0, TRUE)>> \o BadInfo(i)

\* BLOCKINFO that defines an abbreviation for block 8 and then reads the
\* abbreviation id 4, or enters a block
InfoUsing(i) ==
    <<Blk(0, 3, <<Rec(1, <<8>>), Def(AbLiteral),
                  CASE i = 0 -> Id(4)
                    [] i = 1 -> Blk(8, 2, <<>>, 0, TRUE)>>, 0, TRUE)>>

\* definitions that are no abbreviation: no operand; an array or a blob
\* alone; an array of blobs and of arrays; an array and a blob before the
\* last operands; an array as the only operand counted
Malformed(i) ==
    CASE i = 0 -> Abbreviation(<<>>, NoOperand)
      [] i = 1 -> Abbreviation(<<>>, Array(Fixed(1)))
      [] i = 2 -> Abbreviation(<<>>, Blob)
      [] i = 3 -> Abbreviation(<<Literal({0})>>, Array(Blob))
      [] i = 4 -> Abbreviation(<<Literal({0})>>, Array(Array(Char6)))
      [] i = 5 -> Abbreviation(<<Array(Char6), Fixed(1), Fixed(1)>>, NoOperand)
      [] i = 6 -> Abbreviation(<<Blob, Fixed(1)>>, NoOperand)
      [] i = 7 -> Abbreviation(<<Array(Char6)>>, NoOperand)

\* a block 8, or BLOCKINFO for the block 8, with such a definition
Defining(i, info) ==
    IF info THEN <<Blk(0, 3, <<Rec(1, <<8>>), Def(Malformed(i))>>, 0, TRUE)>>
    ELSE <<Blk(8, 3, <<Def(Malformed(i))>>, 0, TRUE)>>

ItemLists ==
    UNION {
        {GlobalBeforeLocal(fill), Unended(fill, <<>>), Unended(fill, <<RecN(fill, 3)>>),
         Unended(fill, <<Blk(9, 2, <<RecN(fill, 1)>>, 0, TRUE)>>),
         <<Blk(8, 2, <<>>, 0, TRUE), End, RecN(fill, 1)>>, <<End>>, <<Id(0)>>, <<>>}
        \cup {LaterInstance(ab, fill, 1, b) : ab \in {AbLiteral, AbArray, AbBlob},
                                             b \in {8, 9}}
        \cup {NestedInstance(ab, fill, 1, b) : ab \in {AbScalars}, b \in {8, 9}}
        \cup {Redefined(a, c, fill) : a \in {AbLiteral, AbArray}, c \in {AbScalars, AbArray}}
        \cup {Counted(fill, n, dw, b) : n \in 0..MaxOps, dw \in {-1, 0, 1}, b \in {8, 9}}
        \cup {InfoInside(fill, n) : n \in {0, MaxOps}}
        \cup {Nested(fill, n, a, b) : n \in 0..MaxPayloadLen, a \in {8, 9}, b \in {8, 9}}
        \cup {Named(fill, n) : n \in 0..MaxOps}
        \cup {BadInfo(i) : i \in 0..7}
        \cup {SecondInfo(i) : i \in {0, 1, 4}}
        \cup {InfoUsing(i) : i \in {0, 1}}
        \cup {Defining(i, info) : i \in 0..7, info \in BOOLEAN} :
        fill \in {0, 1}}

\* u32::to_le_bytes of a number below 2^24
to_le_bytes(n) == <<n % 256, (n \div 256) % 256, (n \div 65536) % 256, 0>>

\* the bitcode wrapper around data: magic, version, offset, size, cpu type
Wrapper(data, offset, size) ==
    LLVM_BITCODE_WRAPPER_MAGIC \o to_le_bytes(0) \o to_le_bytes(offset)
        \o to_le_bytes(size) \o to_le_bytes(7) \o data

\* what Bitcode::read is given: the items written, and the data
Written(items) == [items |-> items, data |-> Bitcode(items)]

\* the data without its last bytes
Cut(w, n) == [w EXCEPT !.data = SubSeq(w.data, 1, Len(w.data) - n)]

\* the data in a wrapper that says its size, or one byte more
Wrapped(w, more) ==
    [w EXCEPT !.data = Wrapper(w.data, 20, Len(w.data) + more)]

\* the data in a wrapper, pad bytes after its header and trail bytes after the
\* data, which the size leaves out
WrappedInside(w, pad, trail) ==
    [w EXCEPT !.data = Wrapper([j \in 1..pad |-> 170] \o w.data \o [j \in 1..trail |-> 85],
                               20 + pad, Len(w.data))]

BitcodeInputs ==
    {Written(items) : items \in ItemLists}
    \cup {Cut(Written(Nested(fill, 0, 8, 9)), n) : fill \in {0, 1}, n \in {1, 4, 8}}
    \cup {Cut(Written(<<>>), n) : n \in {1, 4}}
    \cup {Cut(Written(<<Blk(8, 3, <<RecN(fill, 0)>>, 0, TRUE)>>), 2) : fill \in {0, 1}}
    \cup {Wrapped(Written(Nested(0, 0, 8, 9)), more) : more \in {0, 1}}
    \cup {WrappedInside(Written(items), pad, trail) :
            items \in {Named(0, 1), <<RecN(1, 1)>>}, pad \in {0, 4}, trail \in {0, 3, 4}}
    \cup {WrappedInside([items |-> <<>>, data |-> data], 4, 4) :
            data \in {<<1, 2, 3>>, <<1, 2, 3, 4>>, LLVM_BITCODE_WRAPPER_MAGIC \o <<7, 67, 32, 12>>}}
    \cup {Cut(Wrapped(Written(<<>>), 0), n) : n \in {0, 5, 20}}

InitReader ==
    /\ \E w \in BitcodeInputs, other \in {{NatBits(8)}, {NatBits(9)}},
          api \in {"new", "read"} :
        rd = [phase |-> "start", api |-> api, items |-> w.items, data |-> w.data, pass |-> 1,
              refuse |-> {}, other |-> other, stack |-> <<>>, global_abbrevs |-> <<>>,
              block_info |-> <<>>, visitor |-> CollectingVisitor_new({}),
              events |-> <<>>, result |-> NoError, instances |-> 0, step |-> NoStep,
              first |-> [events |-> <<>>, elements |-> <<>>]]
    /\ input = parse(rd.data).stream
    /\ cur = Cursor_new(input)
    /\ sub = NoSub
    /\ overflow_checks \in BOOLEAN
    /\ vbr = NoVbr
    /\ rec = NoRecord
    /\ it = NoIter
    /\ last = [op |-> "new", arg |-> 0, res |-> Outcome(Ok({}, cur)), pre |-> cur,
               onSub |-> FALSE]

NextReader ==
    \/ BitcodeRead
    \/ EndOfInput
    \/ ReadAbbrevIdFails
    \/ EndBlock
    \/ EnterSubBlock
    \/ DefineAbbreviation
    \/ UnabbreviatedRecord
    \/ AbbreviatedRecord
    \/ ReadAgain

SpecReader == InitReader /\ [][NextReader]_vars


-----------------------------------------------------------------------------
(* Claims about BitStreamReader::read_block and Bitcode::read                *)

\* the last iteration read an abbreviation id of 4 or more in a block
UsedAbbrevId == rd.step.op = "abbreviated_record" /\ ~rd.step.frame.info

\* of the abbreviations the last iteration found for its block id: those that
\* BLOCKINFO defined, then those that the call it ran in defined
ScopedAbbrevs ==
    SelectSeq(rd.step.table, LAMBDA a : a.origin = 0)
        \o SelectSeq(rd.step.table, LAMBDA a : a.origin = rd.step.frame.inst)

\* the last iteration made the callback visit
Visited ==
    \E i \in DOMAIN rd.events :
        rd.events[i].cb = "visit" /\ rd.events[i].at = rd.step.pre

\* C11: in a block of id B an abbreviation id k >= 4 resolves to entry k - 4 of
\* the abbreviations BLOCKINFO defined for B followed by those defined earlier
\* in this instance of the block
C11_AbbreviationIdMapping ==
    (UsedAbbrevId /\ rd.step.k - 4 < Len(ScopedAbbrevs)) =>
        rd.step.table[rd.step.k - 3] = ScopedAbbrevs[rd.step.k - 3]

\* C12: an abbreviation that DEFINE_ABBREVIATION defined in one instance of a
\* block is not resolved in another instance of the same id, nor in a nested
\* block; only the abbreviations of BLOCKINFO are shared
C12_LocalAbbreviationScope ==
    (UsedAbbrevId /\ rd.step.k - 4 < Len(rd.step.table)) =>
        rd.step.table[rd.step.k - 3].origin \in {0, rd.step.frame.inst}

\* C13: an abbreviation id past the end of the abbreviations of BLOCKINFO and
\* of this instance fails with NoSuchAbbrev of the block id and the
\* abbreviation id, and no record is delivered for it
C13_NoSuchAbbrevPastEnd ==
    (UsedAbbrevId /\ rd.step.k - 4 >= Len(ScopedAbbrevs)) =>
        /\ rd.phase = "done"
        /\ rd.result = NoSuchAbbrev(rd.step.frame.id, rd.step.k)
        /\ ~Visited


\* a call of read_block or read_block_info_block for a block inside the
\* stream, not the call for the top level
SubBlock(f) == f.info \/ f.inst > 1

\* C14: no read made for a sub-block of W words whose content starts at P, a
\* nested block's included, takes a bit at or after P + 32 * W
C14_BlockLengthBound ==
    /\ \A i \in DOMAIN rd.stack :
        SubBlock(rd.stack[i]) => Pos(cur) <= rd.stack[i].limit
    /\ (rd.step.op = "end_block" /\ SubBlock(rd.step.frame)) =>
        Pos(cur) <= rd.step.frame.limit

\* C15: a sub-block of id B whose 4 * W bytes are used up without END_BLOCK
\* fails with MissingEndBlock(B); the top level ends at the end of the stream
\* without END_BLOCK and without an error
C15_MissingEndBlock ==
    /\ (/\ SubBlock(rd.step.frame) /\ ~rd.step.frame.info
        /\ rd.step.pre >= rd.step.frame.limit
        /\ rd.step.op = "end_block" \/ rd.phase = "done") =>
            /\ rd.phase = "done"
            /\ rd.result = MissingEndBlock(rd.step.frame.id)
    /\ (rd.step.op = "end_of_input" /\ ~SubBlock(rd.step.frame)) =>
            /\ rd.phase = "done"
            /\ rd.result = NoError

\* C16: after a sub-block was entered and read to its END_BLOCK the cursor of
\* the parent is where skipping 4 * W bytes from the start of its content
\* puts it
C16_SkipConsistency ==
    (/\ rd.step.op = "end_block" /\ rd.step.ok
     /\ SubBlock(rd.step.frame) /\ ~rd.step.frame.info) =>
        Pos(cur) = rd.step.frame.limit


\* the elements without the blocks of the ids refused, at every depth
RECURSIVE WithoutBlocks(_, _)
WithoutBlocks(elements, refused) ==
    IF elements = <<>> THEN <<>>
    ELSE IF Head(elements).block /\ Head(elements).id \in refused
    THEN WithoutBlocks(Tail(elements), refused)
    ELSE <<IF Head(elements).block
           THEN [Head(elements) EXCEPT !.elements = WithoutBlocks(@, refused)]
           ELSE Head(elements)>>
         \o WithoutBlocks(Tail(elements), refused)

\* C17: a stream that a visitor entering every block reads without an error is
\* read without an error by a visitor that refuses the blocks of one id, and
\* what that visitor collects is what the first collected without those blocks
C17_SkipEquivalence ==
    (rd.pass = 2 /\ rd.phase = "done") =>
        /\ rd.result = NoError
        /\ rd.visitor.stack[1].elements = WithoutBlocks(rd.first.elements, rd.other)


\* the callback i is a should_enter_block that the visitor answered with false
Refused(i) == rd.events[i].cb = "should_enter_block" /\ ~rd.events[i].ret

\* C18: after should_enter_block(B) returned false no callback is made for
\* what is inside that block: every later callback comes from an item at or
\* after the end of its 4 * W bytes, where the parse resumes
C18_RefusedBlockIsSilent ==
    /\ \A i \in DOMAIN rd.events :
        Refused(i) =>
            \A j \in DOMAIN rd.events :
                j > i => rd.events[j].at >= rd.events[i].arg.limit
    /\ (rd.step.op = "skip_block" /\ rd.step.ok) =>
        /\ Refused(Len(rd.events))
        /\ Pos(cur) = rd.events[Len(rd.events)].arg.limit

\* a block of three words or more was refused, a record after it was
\* visited, and the read ended without an error
C18_Witness ==
    \E i \in DOMAIN rd.events :
        /\ Refused(i)
        /\ rd.events[i].arg.limit >= rd.events[i].arg.start + 96
        /\ \E j \in DOMAIN rd.events :
            j > i /\ rd.events[j].cb = "visit" /\ rd.phase = "done" /\ rd.result = NoError


\* the ids of the blocks that the first n callbacks entered and did not exit,
\* the innermost last
RECURSIVE OpenBlocks(_, _)
OpenBlocks(events, n) ==
    IF n = 0 THEN <<>>
    ELSE Only({
        IF events[n].cb = "should_enter_block" /\ events[n].ret
        THEN Append(open, events[n].arg.block_id)
        ELSE IF events[n].cb = "did_exit_block" /\ open # <<>>
        THEN SubSeq(open, 1, Len(open) - 1)
        ELSE open :
        open \in {OpenBlocks(events, n - 1)} })

\* C19: the callbacks are nested: did_exit_block is called for the innermost
\* block that was entered and not yet exited, never without one, and visit
\* is called with the id of that block, or of the top level outside any block
C19_CallbacksNested ==
    \A n \in DOMAIN rd.events :
        \E open \in {OpenBlocks(rd.events, n - 1)} :
            /\ rd.events[n].cb = "did_exit_block" =>
                open # <<>> /\ rd.events[n].id = open[Len(open)]
            /\ rd.events[n].cb = "visit" =>
                rd.events[n].id = IF open = <<>> THEN TOP_LEVEL_BLOCK_ID
                                  ELSE open[Len(open)]


\* Bitcode::read has returned or is in read_block
PastValidate == rd.api = "read" /\ rd.phase \in {"run", "done"}

\* validate was the first callback and the only validate, called with the
\* magic of the signature; when it returned false the read failed with
\* InvalidSignature of that magic and made no other callback
ValidatedFirst ==
    /\ rd.events # <<>>
    /\ {n \in DOMAIN rd.events : rd.events[n].cb = "validate"} = {1}
    /\ rd.events[1].arg.magic = parse(rd.data).magic
    /\ ~rd.events[1].ret =>
        /\ rd.phase = "done"
        /\ rd.result = InvalidSignature(rd.events[1].arg.magic)
        /\ Len(rd.events) = 1

\* C20 as stated: Bitcode::read calls validate exactly once, before any other
\* callback, whatever the data; when it returns false the read fails with
\* InvalidSignature(magic) and no other callback is made
C20_ValidateOnceAlways == PastValidate => ValidatedFirst

\* C20: when Signature::parse finds a signature in the data, Bitcode::read
\* calls validate exactly once, before any other callback, and when it
\* returns false the read fails with InvalidSignature(magic) and no other
\* callback is made; when it finds none the read fails with
\* InvalidSignature(0) and no callback is made, validate included
C20_ValidateOnce ==
    PastValidate =>
        IF parse(rd.data).some THEN ValidatedFirst
        ELSE /\ rd.events = <<>>
             /\ rd.phase = "done"
             /\ rd.result = InvalidSignature(U32Zero)

\* validate returned false on data with blocks behind the signature
C20_Witness ==
    /\ rd.phase = "done"
    /\ Len(rd.events) = 1
    /\ rd.events[1].cb = "validate"
    /\ ~rd.events[1].ret
    /\ rd.result = InvalidSignature(parse(rd.data).magic)
    /\ Len(parse(rd.data).stream) >= 8


-----------------------------------------------------------------------------
(* Claims about Signature::parse and the errors of Bitcode::read             *)

\* Bitcode::new or Bitcode::read has called Signature::parse
Parsed == rd.phase \in {"run", "done"}

\* the data starts with the magic of the bitcode wrapper
IsWrapper(data) ==
    Len(data) >= 4 /\ from_le_bytes(data, 0) = LLVM_BITCODE_WRAPPER_MAGIC

\* the bytes of data from byte index lo up to, not including, byte index hi
Bytes(data, lo, hi) == SubSeq(data, lo + 1, hi)

\* C21: when Signature::parse succeeds on data that starts with the wrapper
\* magic, version, offset, size and cpu_type are the little-endian words 1 to
\* 4, offset + size <= len, magic2 is the word at byte `offset`, the remaining
\* stream is the bytes [offset + 4, offset + size), and parsing the bytes
\* [offset, offset + size) as a raw stream gives that stream and magic2 as magic
C21_WrapperSignature ==
    (Parsed /\ IsWrapper(rd.data) /\ parse(rd.data).some) =>
        \E sig \in {parse(rd.data)} :
        \E offset \in {u32_as_usize(sig.offset)}, size \in {u32_as_usize(sig.size)} :
            /\ sig.magic = LLVM_BITCODE_WRAPPER_MAGIC
            /\ sig.version = Bytes(rd.data, 4, 8)
            /\ sig.offset = Bytes(rd.data, 8, 12)
            /\ sig.size = Bytes(rd.data, 12, 16)
            /\ sig.cpu_type = Bytes(rd.data, 16, 20)
            /\ offset + size <= Len(rd.data)
            /\ sig.magic2 = Bytes(rd.data, offset, offset + 4)
            /\ sig.stream = Bytes(rd.data, offset + 4, offset + size)
            /\ input = sig.stream
            /\ ~IsWrapper(Bytes(rd.data, offset, offset + size)) =>
                \E raw \in {parse(Bytes(rd.data, offset, offset + size))} :
                    raw.some /\ raw.magic = sig.magic2 /\ raw.stream = sig.stream

\* a wrapper with bytes between its header and the stream and bytes after the
\* stream was parsed, and the stream in it was read
C21_Witness ==
    /\ rd.phase = "done"
    /\ IsWrapper(rd.data)
    /\ parse(rd.data).some
    /\ u32_as_usize(parse(rd.data).offset) > 20
    /\ u32_as_usize(parse(rd.data).offset) + u32_as_usize(parse(rd.data).size)
          < Len(rd.data)
    /\ rd.result = NoError
    /\ Len(rd.events) > 1


\* C22: on data of 4 bytes or more that does not start with the wrapper magic
\* Signature::parse returns the first word as magic, magic2 = 0, version = 0,
\* offset = 4, size = len - 4, cpu_type = 0, and the data after its first 4
\* bytes
C22_RawSignature ==
    (Parsed /\ Len(rd.data) >= 4 /\ ~IsWrapper(rd.data)) =>
        \E sig \in {parse(rd.data)} :
            /\ sig.some
            /\ sig.magic = Bytes(rd.data, 0, 4)
            /\ sig.magic2 = U32Zero
            /\ sig.version = U32Zero
            /\ sig.offset = <<4, 0, 0, 0>>
            /\ sig.size[4] = 0 /\ u32_as_usize(sig.size) = Len(rd.data) - 4
            /\ sig.cpu_type = U32Zero
            /\ sig.stream = Bytes(rd.data, 4, Len(rd.data))
            /\ input = sig.stream

\* raw data with blocks in it was parsed and read
C22_Witness ==
    /\ rd.phase = "done"
    /\ Len(rd.data) > 12
    /\ ~IsWrapper(rd.data)
    /\ rd.result = NoError
    /\ \E n \in DOMAIN rd.events : rd.events[n].cb = "did_exit_block"

\* a bounds check of Signature::parse fails on the data
BoundsCheckFails(data) ==
    \/ Len(data) < 4
    \/ /\ IsWrapper(data)
       /\ \/ Len(data) < 20
          \/ u32_as_usize(Bytes(data, 8, 12)) + u32_as_usize(Bytes(data, 12, 16)) > Len(data)
          \/ u32_as_usize(Bytes(data, 12, 16)) < 4

\* C23: when a bounds check of the signature fails (fewer than 4 bytes, a
\* wrapper of fewer than 20 bytes, [offset, offset + size) not inside the data,
\* a region of fewer than 4 bytes) Bitcode::new and Bitcode::read fail with
\* InvalidSignature(0), without a visitor callback and without a panic
C23_SignatureBounds ==
    (Parsed /\ BoundsCheckFails(rd.data)) =>
        /\ rd.phase = "done"
        /\ rd.result = InvalidSignature(U32Zero)
        /\ rd.events = <<>>
        /\ ~rd.visitor.panicked

\* a wrapper whose region ends after the data was refused
C23_Witness ==
    /\ rd.phase = "done"
    /\ IsWrapper(rd.data)
    /\ Len(rd.data) >= 24
    /\ u32_as_usize(Bytes(rd.data, 8, 12)) + 4 <= Len(rd.data)
    /\ u32_as_usize(Bytes(rd.data, 8, 12)) + u32_as_usize(Bytes(rd.data, 12, 16))
          > Len(rd.data)
    /\ rd.result = InvalidSignature(U32Zero)


\* C24: a failure to decode a part of a record is returned as an error: a
\* record of an abbreviation with a payload is not returned without payload
\* because the payload failed to decode
C24_ErrorsSurface ==
    (/\ last.op = "into_record" /\ last.res.ok
     /\ rec.abbreviated /\ rec.abbrev.payload.k # "None") =>
        last.res.out.payload.some


-----------------------------------------------------------------------------
(* Claims about BLOCKINFO and the abbreviations of the reader                *)

\* the step is an iteration of the loop of read_block_info_block
InfoStep == rd.phase = "run" /\ Frame.info /\ rd'.pass = rd.pass

\* the unabbreviated record that the iteration read has the code given
ReadCode(codes) == rd'.step.record.ok /\ rd'.step.record.out.id \in codes

\* the iteration needs a current block id: BlockName, SetRecordName or
\* DEFINE_ABBREVIATION
NeedsBid == ReadCode({{1}, {0, 1}}) \/ rd'.step.op = "define_abbreviation"

\* C25: in BLOCKINFO a SetBid record (code 1) with one field makes that field
\* the current block id, and with another number of fields fails with
\* InvalidBlockInfoRecord; BlockName, SetRecordName or DEFINE_ABBREVIATION
\* before any SetBid of that BLOCKINFO fails with MissingSetBid and changes
\* neither the abbreviations of a block id nor block_info
C25_SetBid ==
    [][InfoStep =>
        /\ (ReadCode({{0}}) /\ Len(rd'.step.record.out.fields) = 1) =>
            /\ rd'.phase = "run"
            /\ Frame'.info
            /\ Frame'.current_block_id =
                  [some |-> TRUE, id |-> rd'.step.record.out.fields[1]]
        /\ (ReadCode({{0}}) /\ Len(rd'.step.record.out.fields) # 1) =>
            /\ rd'.phase = "done"
            /\ rd'.result = InvalidBlockInfoRecord({0})
        /\ (NeedsBid /\ ~Frame.current_block_id.some) =>
            /\ rd'.phase = "done"
            /\ rd'.result = MissingSetBid
            /\ rd'.global_abbrevs = rd.global_abbrevs
            /\ rd'.block_info = rd.block_info
    ]_vars

\* a BLOCKINFO without SetBid failed with MissingSetBid after an earlier
\* BLOCKINFO had set names and an abbreviation of block 8
C25_Witness ==
    /\ rd.phase = "done"
    /\ rd.result = MissingSetBid
    /\ rd.step.frame.info
    /\ ~rd.step.frame.current_block_id.some
    /\ NatBits(8) \in DOMAIN rd.global_abbrevs
    /\ NatBits(8) \in DOMAIN rd.block_info


\* C26: the abbreviations of a block id b change only by a DEFINE_ABBREVIATION
\* in a BLOCKINFO whose last SetBid is b, which appends one entry; entries
\* are not removed or reordered, the abbreviations of other block ids stay,
\* and nothing outside BLOCKINFO changes them
C26_GlobalAbbrevsGrowInBlockInfo ==
    [][(rd.phase = "run" /\ rd'.global_abbrevs # rd.global_abbrevs) =>
        /\ Frame.info
        /\ Frame.current_block_id.some
        /\ rd'.step.op = "define_abbreviation"
        /\ \A b \in DOMAIN rd'.global_abbrevs :
            IF b = Frame.current_block_id.id
            THEN /\ Len(rd'.global_abbrevs[b]) = Len(abbrevs_of(rd.global_abbrevs, b)) + 1
                 /\ SubSeq(rd'.global_abbrevs[b], 1, Len(rd'.global_abbrevs[b]) - 1)
                        = abbrevs_of(rd.global_abbrevs, b)
            ELSE rd'.global_abbrevs[b] = abbrevs_of(rd.global_abbrevs, b)
    ]_vars


\* C27: in BLOCKINFO the abbreviation id 1 (ENTER_SUB_BLOCK) fails with
\* NestedBlockInBlockInfo, and every abbreviation id from 4 on fails as well;
\* neither enters a block, reads a record or makes a callback
C27_BlockInfoBuiltinOnly ==
    [][(InfoStep /\ ReadAbbrevId.ok) =>
        /\ AsUsize(ReadAbbrevId.val) = 1 =>
            /\ rd'.phase = "done"
            /\ rd'.result = NestedBlockInBlockInfo
            /\ rd'.stack = rd.stack
            /\ rd'.events = rd.events
        /\ AsUsize(ReadAbbrevId.val) >= 4 =>
            /\ rd'.phase = "done"
            /\ rd'.result = NoSuchAbbrev({}, AsUsize(ReadAbbrevId.val))
            /\ rd'.stack = rd.stack
            /\ rd'.events = rd.events
    ]_vars

\* C27: Bitcode::read ended with NestedBlockInBlockInfo in a BLOCKINFO that
\* had set the block id 8 and defined an abbreviation for it
C27_Witness ==
    /\ rd.phase = "done"
    /\ rd.result = NestedBlockInBlockInfo
    /\ rd.step.frame.info
    /\ rd.step.frame.current_block_id = [some |-> TRUE, id |-> NatBits(8)]
    /\ Len(abbrevs_of(rd.global_abbrevs, NatBits(8))) = 1


-----------------------------------------------------------------------------
(* Claims about the typed accessors of RecordIter *)

\* the iterator with the Ops `ops` has a scalar field left
HasNext(ops) ==
    IF ops.k = "Abbrev" THEN ops.state < Len(ops.abbrev.fields) ELSE ops.num_ops > 0

\* the value written for the field that the iterator with the Ops `ops`
\* reads next; a Char6 field is written as its 6-bit value and is the
\* character
WrittenField(ops) ==
    IF ops.k = "Abbrev"
    THEN IF ops.abbrev.fields[ops.state + 1].k = "Char6"
         THEN ByteBits(char6(AsU8(rec.vals[ops.state + 1])))
         ELSE rec.vals[ops.state + 1]
    ELSE rec.vals[Len(rec.vals) - ops.num_ops + 1]

\* a + b modulo 2^64
RECURSIVE Sum64(_, _)
Sum64(a, b) ==
    IF b = {} THEN a ELSE Sum64((a \cup b) \ (a \cap b), Shl(a \cap b, 1))

\* a call of the accessor op on an iterator that has a field left
TypedCall(op) == it.phase = "open" /\ last'.op = op /\ HasNext(it.ops)

\* C28: i64() of the next field v is v >> 1, not negative, when bit 0 of v
\* is 0; the negative number that added to v >> 1 gives 0 when bit 0 is 1
\* and v is not 1; i64::MIN when v is 1; and no v makes it panic, in a build
\* with overflow checks too
C28_SignedField ==
    [][TypedCall("i64") =>
        /\ last'.res.ok
        /\ 0 \notin WrittenField(it.ops) =>
            /\ last'.res.out = Shr(WrittenField(it.ops), 1)
            /\ 63 \notin last'.res.out
        /\ (0 \in WrittenField(it.ops) /\ WrittenField(it.ops) # {0}) =>
            /\ 63 \in last'.res.out
            /\ Sum64(last'.res.out, Shr(WrittenField(it.ops), 1)) = {}
        /\ WrittenField(it.ops) = {0} => last'.res.out = {63}
    ]_vars

\* C28: i64() gave i64::MIN for a field written as 1, in a build with
\* overflow checks
C28_Witness ==
    /\ last.op = "i64"
    /\ last.res.ok
    /\ last.res.out = {63}
    /\ overflow_checks
    /\ ~rec.abbreviated
    /\ it.ops.num_ops < Len(rec.vals)
    /\ rec.vals[Len(rec.vals) - it.ops.num_ops] = {0}


\* a call of an accessor on an iterator whose scalar fields are all consumed
PastLastField == it.phase = "open" /\ ~HasNext(it.ops)

\* C29: with every scalar field consumed, next() gives None and u64(), i64(),
\* u32(), u8() and bool() fail with EndOfRecord, and the call leaves the
\* cursor and the iterator as they were, so that the next call finds the same;
\* u8() and u32() of a field that does not fit the type, and bool() of a field
\* that is neither 0 nor 1, fail with ValueOverflow
C29_EndOfRecordAndOverflow ==
    [][/\ (PastLastField /\ last'.op = "next") =>
            /\ last'.res.ok
            /\ last'.res.out = None
            /\ cur' = cur
            /\ it'.ops = it.ops
       /\ (PastLastField /\ last'.op \in {"u64", "i64", "u32", "u8", "bool"}) =>
            /\ ~last'.res.ok
            /\ last'.res.err = "EndOfRecord"
            /\ cur' = cur
            /\ it'.ops = it.ops
       /\ (TypedCall("u8") /\ ~(WrittenField(it.ops) \subseteq 0..7)) =>
            ~last'.res.ok /\ last'.res.err = "ValueOverflow"
       /\ (TypedCall("u32") /\ ~(WrittenField(it.ops) \subseteq 0..31)) =>
            ~last'.res.ok /\ last'.res.err = "ValueOverflow"
       /\ (TypedCall("bool") /\ WrittenField(it.ops) \notin {{}, {0}}) =>
            ~last'.res.ok /\ last'.res.err = "ValueOverflow"
    ]_vars

\* C29: u64() failed with EndOfRecord and left the cursor where it was, on the
\* iterator of an abbreviated record whose array of MaxPayloadLen elements is
\* not read
C29_Witness ==
    /\ last.op = "u64"
    /\ last.res.err = "EndOfRecord"
    /\ last.pre = cur
    /\ it.phase = "open"
    /\ rec.abbreviated
    /\ rec.abbrev.payload.k = "Array"
    /\ Len(rec.elements) = MaxPayloadLen
    /\ it.ops.state = Len(rec.abbrev.fields)


-----------------------------------------------------------------------------
(* Claims about Char6 *)

\* the characters a..z, A..Z, 0..9, '.', '_' in the order of their 6-bit values
Char6Alphabet ==
    <<97, 98, 99, 100, 101, 102, 103, 104, 105, 106, 107, 108, 109,
      110, 111, 112, 113, 114, 115, 116, 117, 118, 119, 120, 121, 122,
      65, 66, 67, 68, 69, 70, 71, 72, 73, 74, 75, 76, 77,
      78, 79, 80, 81, 82, 83, 84, 85, 86, 87, 88, 89, 90,
      48, 49, 50, 51, 52, 53, 54, 55, 56, 57, 46, 95>>

\* the 6-bit values written in the record: of the Char6 field, and of the
\* elements of the array
Char6Field == BitsToNat(rec.vals[2])
Char6Element(i) == BitsToNat(rec.elements[i])

\* C30: a Char6 field read by next(), and the Char6 elements read by array()
\* and by string(), are the characters of the alphabet at their 6-bit values:
\* a..z for 0..25, A..Z for 26..51, 0..9 for 52..61, '.' for 62 and '_' for
\* 63; no other 6-bit value gives the character of the field; and next(),
\* array() and string() give the same character for the same 6-bit value
C30_Char6Bijection ==
    /\ (last.op = "next" /\ last.res.ok /\ last.res.out.some) =>
        /\ last.res.out.val = NatBits(Char6Alphabet[Char6Field + 1])
        /\ \A u \in 0..63 :
            u # Char6Field =>
                /\ ByteBits(char6(u)) # last.res.out.val
                /\ ByteBits(string_char6(u)) # last.res.out.val
    /\ (last.op = "array" /\ last.res.ok) =>
        /\ Len(last.res.out) = Len(rec.elements)
        /\ \A i \in 1..Len(rec.elements) :
            last.res.out[i] = NatBits(Char6Alphabet[Char6Element(i) + 1])
    /\ (last.op = "string" /\ last.res.ok) =>
        /\ Len(last.res.out) = Len(rec.elements)
        /\ \A i \in 1..Len(rec.elements) :
            last.res.out[i] = Char6Alphabet[Char6Element(i) + 1]
        /\ last.res.out[1] = BitsToNat(ByteBits(char6(Char6Field)))
        /\ last.res.out[1] # last.res.out[2]

\* C30: string() gave "_a" for the elements 63 and 0 after next() had read the
\* field 63
C30_Witness ==
    /\ last.op = "string"
    /\ last.res.ok
    /\ last.res.out = <<95, 97>>
    /\ Char6Field = 63
    /\ it.clean


-----------------------------------------------------------------------------
(* Claims about the payloads and the fields of a record *)

\* the 6-bit values written as the elements of the record
WrittenElements == [i \in 1..Len(rec.elements) |-> BitsToNat(rec.elements[i])]

\* into_record() was called with the payload unread: on the cursor as
\* from_cursor_abbrev left it, since the only field is a Literal
DecodedPayload(values) ==
    /\ last.op = "into_record"
    /\ last.pre.offset = rec.lead
    /\ WrittenElements = values

\* into_record() gave a record with the Char6 string `chars` as its payload
PayloadIsString(chars) ==
    /\ last.res.ok
    /\ last.res.out.payload = [some |-> TRUE, kind |-> "Char6String", val |-> chars]

\* C31 as the claim has it: the payload of an abbreviated record whose array
\* of Char6 has the five values 19, 13, 11, 11, 14 is the string "hello"
C31_HelloFromT ==
    DecodedPayload(<<19, 13, 11, 11, 14>>) =>
        PayloadIsString(<<104, 101, 108, 108, 111>>)

\* C31: the payload of an abbreviated record whose array of Char6 has the
\* five values 7, 4, 11, 11, 14 is the string "hello", and string() gives
\* the same bytes; the values 19, 13, 11, 11, 14 give "tnllo"
C31_HelloPayload ==
    /\ DecodedPayload(<<7, 4, 11, 11, 14>>) =>
        PayloadIsString(<<104, 101, 108, 108, 111>>)
    /\ (last.op = "string" /\ it.clean /\ WrittenElements = <<7, 4, 11, 11, 14>>) =>
        last.res.ok /\ last.res.out = <<104, 101, 108, 108, 111>>
    /\ DecodedPayload(<<19, 13, 11, 11, 14>>) =>
        PayloadIsString(<<116, 110, 108, 108, 111>>)

\* C31: into_record() gave the payload "hello" for a record that follows
\* three bits of the input
C31_Witness ==
    /\ DecodedPayload(<<7, 4, 11, 11, 14>>)
    /\ PayloadIsString(<<104, 101, 108, 108, 111>>)
    /\ rec.lead = 3


\* a scalar operand
IsScalar(op) == op.k \in {"Literal", "Fixed", "Vbr", "Char6"}

\* scalar operands, the first of them for the record code, and then at most
\* one payload operand: a blob, or an array of a scalar
IsAbbreviation(operands) ==
    /\ Len(operands) >= 1
    /\ IsScalar(operands[1])
    /\ \A j \in 1..(Len(operands) - 1) : IsScalar(operands[j])
    /\ \/ IsScalar(operands[Len(operands)])
       \/ operands[Len(operands)].k = "Blob"
       \/ /\ operands[Len(operands)].k = "Array"
          /\ IsScalar(operands[Len(operands)].el)

\* C32: every abbreviation that the reader has stored is scalar operands, at
\* least one, and then at most one payload operand, whose element is a scalar
\* when it is an array; and a DEFINE_ABBREVIATION that ended the read has
\* ended it with an error, not a panic
C32_AbbreviationShape ==
    /\ \A b \in DOMAIN rd.global_abbrevs :
        \A i \in 1..Len(rd.global_abbrevs[b]) :
            IsAbbreviation(rd.global_abbrevs[b][i].operands)
    /\ (rd.phase = "done" /\ rd.step.op = "define_abbreviation") =>
            rd.result # ReadBits("panic")


\* the fields of the record from the one that the iterator with the Ops
\* `ops` reads next
FieldsLeft(ops) == SubSeq(rec.vals, Len(rec.vals) - ops.num_ops + 1, Len(rec.vals))

\* C33: of an unabbreviated record, from_cursor reads the record code and the
\* number F of fields as 6-bit VBRs; each next() gives the next field written
\* and moves the cursor by its 6-bit VBR; into_record() gives the fields left
\* in the order written and no payload; and with no field left the cursor is
\* at the first bit after the F-th field
C33_UnabbreviatedRecord ==
    [][~rec.abbreviated =>
        /\ (it.phase = "none" /\ last'.op = "from_cursor") =>
            /\ last'.res.ok
            /\ last'.res.out = rec.id
            /\ it'.ops = OpsFull(Len(rec.vals))
            /\ Pos(cur') = rec.lead + Len(VbrBits(rec.id, 6))
                                    + Len(VbrBits(NatBits(Len(rec.vals)), 6))
        /\ TypedCall("next") =>
            /\ last'.res.ok
            /\ last'.res.out = Some(WrittenField(it.ops))
            /\ it'.ops = OpsFull(it.ops.num_ops - 1)
            /\ Pos(cur') = Pos(cur) + Len(VbrBits(WrittenField(it.ops), 6))
        /\ (it.phase = "open" /\ last'.op = "into_record") =>
            /\ last'.res.ok
            /\ last'.res.out = [id |-> rec.id, fields |-> FieldsLeft(it.ops),
                                payload |-> None]
        /\ (it'.phase \in {"open", "dropped"} /\ it'.ops.num_ops = 0) =>
            Pos(cur') = RecordEnd(rec)
    ]_vars

\* C33: next() gave the last of MaxOps fields of an unabbreviated record that
\* follows three bits, the field before it being 2^64 - 1
C33_Witness ==
    /\ ~rec.abbreviated
    /\ rec.lead = 3
    /\ Len(rec.vals) = MaxOps
    /\ rec.vals[Len(rec.vals) - 1] = 0..63
    /\ it.phase = "open"
    /\ it.clean
    /\ it.ops = OpsFull(0)
    /\ last.op = "next"
    /\ last.res.out = Some(rec.vals[Len(rec.vals)])
    /\ Pos(cur) = RecordEnd(rec)


\* blob() is called with every field read and the blob unread
BlobCall ==
    /\ it.phase = "open"
    /\ it.clean
    /\ it.ops.k = "Abbrev"
    /\ it.ops.abbrev.payload.k = "Blob"
    /\ it.ops.state = Len(it.ops.abbrev.fields)
    /\ last'.op = "blob"

\* the position p rounded up to a multiple of 32
Up32(p) == ((p + 31) \div 32) * 32

\* the first bit of the bytes of the blob: the 32-bit boundary after the six
\* bits of a length below 32
BlobStart == Up32(Pos(cur) + 6)

\* C34: blob() reads the length L as a 6-bit VBR, goes to the next 32-bit
\* boundary, takes L bytes and goes to the next 32-bit boundary: it gives the
\* L bytes written and leaves the cursor on the boundary after them; when the
\* length is in the input and fewer than L bytes follow the first boundary,
\* it fails with BufferOverflow
C34_BlobPayload ==
    [][BlobCall =>
        /\ last'.res.ok =>
            /\ last'.res.out = rec.bytes
            /\ Pos(cur') = Up32(BlobStart + 8 * Len(rec.bytes))
            /\ Pos(cur') % 32 = 0
        /\ (/\ Pos(cur) + 6 <= 8 * Len(input)
            /\ 8 * Len(input) - BlobStart < 8 * Len(rec.bytes)) =>
                ~last'.res.ok /\ last'.res.err = "BufferOverflow"
    ]_vars

\* C34: blob() gave the MaxBlobLen bytes of a blob that follows three bits
\* and the fields, with bytes of the input behind its padding
C34_Witness ==
    /\ last.op = "blob"
    /\ last.res.ok
    /\ last.res.out = rec.bytes
    /\ Len(rec.bytes) = MaxBlobLen
    /\ rec.lead = 3
    /\ Pos(cur) % 32 = 0
    /\ Pos(cur) < 8 * Len(input)


-----------------------------------------------------------------------------
(* Claims about the blocks, the visitor and the cursor *)

\* bit k of the stream that Bitcode::read reads
InBit(k) == StreamBit(input, k)

\* the w bits of the stream from bit pos, as a u64
BitsAt(pos, w) == {i \in 0..(w - 1) : InBit(pos + i)}

\* the first bit after the VBR of width w that starts at bit pos
RECURSIVE ChainEnd(_, _)
ChainEnd(pos, w) == IF InBit(pos + w - 1) THEN ChainEnd(pos + w, w) ELSE pos + w

\* the value of the VBR of width w that starts at bit pos, shifted by `shift`
RECURSIVE ChainValue(_, _, _)
ChainValue(pos, w, shift) ==
    {shift + b : b \in {i \in 0..(w - 2) : InBit(pos + i)}}
        \cup (IF InBit(pos + w - 1) THEN ChainValue(pos + w, w, shift + w - 1) ELSE {})

\* the new abbreviation width in the ENTER_SUB_BLOCK header that follows the
\* abbreviation id read at the cursor: the 4-bit VBR after the 8-bit VBR
HeaderWidth == ChainValue(ChainEnd(Pos(cur) + Frame.abbrev_width, 8), 4, 0)

\* C35: the top level reads its abbreviation ids with the width 2; a step
\* that enters a block or BLOCKINFO gives it the width of its ENTER_SUB_BLOCK
\* header and leaves the calls that are running as they are; every step reads
\* its abbreviation id as the bits of the stream at the cursor, as many as
\* the width of the block it is in; no step changes the width of a running
\* call, and END_BLOCK (or the end of the input at the top level) returns to
\* the calls that were running, each with its width
C35_WidthPerBlock ==
    [][(rd.phase = "run" /\ rd'.phase \in {"run", "done"} /\ rd'.pass = rd.pass) =>
        /\ rd.stack[1].abbrev_width = 2
        /\ Len(rd'.stack) = Len(rd.stack) + 1 =>
            /\ SubSeq(rd'.stack, 1, Len(rd.stack)) = rd.stack
            /\ HeaderWidth \subseteq 0..7
            /\ Frame'.abbrev_width = BitsToNat(HeaderWidth)
        /\ rd'.step.k = (IF ReadAbbrevId.ok
                         THEN AsUsize(BitsAt(Pos(cur), Frame.abbrev_width)) ELSE 0)
        /\ Len(rd'.stack) = Len(rd.stack) =>
            \A i \in 1..Len(rd.stack) :
                rd'.stack[i].abbrev_width = rd.stack[i].abbrev_width
        /\ Len(rd'.stack) < Len(rd.stack) =>
            /\ rd'.step.op \in {"end_block", "end_of_input"}
            /\ rd'.stack = Returned
    ]_vars

\* C35: END_BLOCK of a block of width 2 inside a block of width 3 returned to
\* the call of the outer block, which then read a record with its width 3
C35_Witness ==
    /\ rd.phase = "run"
    /\ Len(rd.stack) = 2
    /\ Frame.abbrev_width = 3
    /\ rd.step.frame = Frame
    /\ rd.step.op = "abbreviated_record"
    /\ \E i \in 1..Len(rd.events) :
        /\ rd.events[i].cb = "did_exit_block"
        /\ rd.events[i].at > Frame.start


\* the blocks that are entered: the calls of read_block that are running,
\* but for the call of the top level
EnteredBlocks == Cardinality({i \in 2..Len(rd.stack) : ~rd.stack[i].info})

\* the records of a list of elements and of their blocks, in their order
RECURSIVE FlatRecords(_)
FlatRecords(elements) ==
    IF elements = <<>> THEN <<>>
    ELSE (IF Head(elements).block THEN FlatRecords(Head(elements).elements)
          ELSE <<Head(elements).record>>) \o FlatRecords(Tail(elements))

\* the records the visitor holds in the first n entries of its stack
RECURSIVE CollectedRecords(_)
CollectedRecords(n) ==
    IF n = 0 THEN <<>>
    ELSE CollectedRecords(n - 1) \o FlatRecords(rd.visitor.stack[n].elements)

\* the records of the first n callbacks, in the order of the stream
RECURSIVE VisitedRecords(_)
VisitedRecords(n) ==
    IF n = 0 THEN <<>>
    ELSE VisitedRecords(n - 1) \o (IF rd.events[n].cb = "visit"
                                   THEN <<rd.events[n].arg.record>> ELSE <<>>)

\* the stack of the collecting visitor is not empty and no unwrap has
\* panicked; while read_block runs the stack is one deeper than the blocks
\* entered; the records held are those visited, in the order of the stream,
\* the last one visited being the last element of the innermost entry; after
\* a successful return the stack is the entry of the top level alone
VisitorMirrorsNesting ==
    /\ ~rd.visitor.panicked
    /\ rd.visitor.stack # <<>>
    /\ rd.phase = "run" => Len(rd.visitor.stack) = 1 + EnteredBlocks
    /\ CollectedRecords(Len(rd.visitor.stack)) = VisitedRecords(Len(rd.events))
    /\ (rd.phase = "run" /\ rd.events # <<>>
            /\ rd.events[Len(rd.events)].cb = "visit"
            /\ rd.step.op \in {"abbreviated_record", "unabbreviated_record"}) =>
        \E els \in {rd.visitor.stack[Len(rd.visitor.stack)].elements} :
            /\ els # <<>>
            /\ els[Len(els)] = ElRecord(rd.events[Len(rd.events)].arg.record)
    /\ (rd.phase = "done" /\ rd.result = NoError) =>
        /\ Len(rd.visitor.stack) = 1
        /\ rd.visitor.stack[1].id = TOP_LEVEL_BLOCK_ID

\* C36: the collecting visitor mirrors the nesting of the blocks on every
\* input that no visitor refuses a block of, an END_BLOCK at the top level
\* included: at every callback and after the return its stack is not empty,
\* one deeper than the blocks entered, holds the records in the order of the
\* stream, and after a successful return holds the entry of the top level
\* alone; no unwrap panics
C36_VisitorMirrorsNesting ==
    (rd.phase \in {"run", "done"} /\ rd.refuse = {}) => VisitorMirrorsNesting


-----------------------------------------------------------------------------
(* The loop over the elements of an array payload, one step for each         *)
(* iteration: read_abbreviated_record (src/src/read.rs) and                  *)
(* RecordIter::array (src/src/bitcode.rs) on a cursor at the length          *)

MaxArrayBytes == 2

\* the bytes of the inputs: the lengths 0, 5 and 31 in the low six bits
ArrayByteValues == {0, 5, 95, 192}

\* the element operands of the arrays
ArrayElements == {Literal({0}), Fixed(1), Fixed(3), Vbr(2), Char6}

InitElements ==
    /\ input \in UNION {[1..n -> ArrayByteValues] : n \in 1..MaxArrayBytes}
    /\ cur = Cursor_new(input)
    /\ rec \in {[live |-> TRUE, api |-> api, element |-> el, phase |-> "length",
                 length |-> 0, steps |-> 0, err |-> ""] :
                    api \in {"read_abbreviated_record", "array"}, el \in ArrayElements}
    /\ sub = NoSub
    /\ overflow_checks \in BOOLEAN
    /\ vbr = NoVbr
    /\ it = NoIter
    /\ rd = NoReader
    /\ last = [op |-> "new", arg |-> 0, res |-> Outcome(Ok({}, cur)), pre |-> cur,
               onSub |-> FALSE]

\* let length = self.cursor.read_vbr(6)? as usize;
\* let mut elements = Vec::with_capacity(length);
ArrayLength ==
    /\ rec.live /\ rec.phase = "length"
    /\ \E length \in {read_vbr(cur, 6, overflow_checks)} :
        /\ cur' = length.c
        /\ rec' = IF length.ok
                  THEN [rec EXCEPT !.phase = "loop", !.length = AsUsize(length.val)]
                  ELSE [rec EXCEPT !.phase = "done", !.err = length.err]
    /\ UNCHANGED <<input, overflow_checks, vbr, sub, it, last, rd>>

\* one iteration of for _ in 0..length: the element is read and pushed, or
\* its error returned
ArrayElement ==
    /\ rec.live /\ rec.phase = "loop"
    /\ rec.steps < rec.length
    /\ \E r \in {IF rec.api = "array"
                 THEN Only({[ok |-> e.ok, err |-> e.err, c |-> e.c] :
                            e \in {read_scalar_operand(cur, rec.element, overflow_checks)}})
                 ELSE Only({[ok |-> e.ok, c |-> e.c,
                             err |-> IF e.e.kind = "ReadBits" THEN e.e.bits
                                     ELSE e.e.kind] :
                            e \in {read_single_abbreviated_record_operand(
                                        cur, rec.element, overflow_checks)}})} :
        /\ cur' = r.c
        /\ rec' = IF r.ok THEN [rec EXCEPT !.steps = @ + 1]
                  ELSE [rec EXCEPT !.phase = "done", !.err = r.err]
    /\ UNCHANGED <<input, overflow_checks, vbr, sub, it, last, rd>>

\* the loop ends after `length` iterations
ArrayEnd ==
    /\ rec.live /\ rec.phase = "loop"
    /\ rec.steps = rec.length
    /\ rec' = [rec EXCEPT !.phase = "done"]
    /\ UNCHANGED <<cur, input, overflow_checks, vbr, sub, it, last, rd>>

NextElements ==
    \/ ArrayLength
    \/ ArrayElement
    \/ ArrayEnd

SpecElements == InitElements /\ [][NextElements]_vars

\* C37: decoding is bounded by the input: every iteration over the elements
\* of a payload array consumed at least one bit, so the iterations done never
\* outnumber the bits of the input that were consumed, whatever length the
\* array declares and whatever its elements are, Literal included
C37_StepsBoundedByBits ==
    (rec.live /\ rec.phase \in {"loop", "done"}) =>
        /\ rec.steps <= Pos(cur)
        /\ rec.steps <= 8 * Len(input)


\* the offset of a cursor is a bit of its buffer or its end, and is_at_end
\* says that no bit is left
CursorInBounds(c) ==
    /\ 0 <= c.offset
    /\ c.offset <= 8 * Len(c.buffer)
    /\ unconsumed_bit_len(c) >= 0
    /\ unconsumed_bit_len(c) <= 8 * Len(input)
    /\ is_at_end(c) <=> unconsumed_bit_len(c) = 0

\* C38: after any sequence of read, peek, read_vbr, read_bytes, skip_bytes,
\* take_slice and align32 calls that returned, with Ok or with an error, on a
\* cursor or on a sub-cursor taken from it, the bit position of the cursor is
\* between 0 and 8 * the length of its buffer: unconsumed_bit_len does not
\* underflow, and is_at_end holds exactly when unconsumed_bit_len is 0
C38_CursorInBounds ==
    Running =>
        /\ CursorInBounds(cur)
        /\ 0 <= Pos(cur) /\ Pos(cur) <= 8 * Len(input)
        /\ sub.live => CursorInBounds(sub.c)

\* C38: a skip_bytes beyond the end of a buffer that is not empty failed, on
\* a cursor that earlier calls had moved to its end
C38_Witness ==
    /\ last.op = "skip_bytes"
    /\ last.arg > 0
    /\ last.res.err = "BufferOverflow"
    /\ Len(Active.buffer) > 0
    /\ is_at_end(Active)
    /\ unconsumed_bit_len(Active) = 0


\* the iterator of an abbreviated record has fields that are not read
FieldsUnread ==
    /\ Running
    /\ it.phase = "open"
    /\ it.ops.k = "Abbrev"
    /\ it.ops.state < Len(it.ops.abbrev.fields)

\* a call for the payload gave UnexpectedOperand of the next field that is
\* not read, with the cursor c and the iterator ops as they were
RefusedEarly(res, c, ops) ==
    /\ ~res.ok
    /\ res.err = "UnexpectedOperand"
    /\ res.operand = it.ops.abbrev.fields[it.ops.state + 1]
    /\ c = cur
    /\ ops = it.ops

\* C39: blob(), array(), string() or payload() on an abbreviated record with
\* scalar fields still unread fails with UnexpectedOperand of the next unread
\* field, reads no bit and leaves the iterator as it was: the fields left and
\* then the payload are read afterwards as they would have been, to the
\* first bit after the record
C39_PayloadBeforeFields ==
    [][(FieldsUnread /\ last'.op \in {"blob", "array", "string"}) =>
        /\ RefusedEarly(last'.res, cur', it'.ops)
        /\ it.ops.abbrev.payload.k # "None" =>
            \E p \in {payload(cur, it.ops, overflow_checks)} :
                RefusedEarly(p, p.c, p.ops)
        /\ \E fields \in {drain(cur', it'.ops, overflow_checks)} :
            /\ fields = drain(cur, it.ops, overflow_checks)
            /\ (it.clean /\ fields.ok /\ ~it.mismatch) =>
                \E p \in {payload(fields.c, fields.ops, overflow_checks)} :
                    /\ p.err # "UnexpectedOperand"
                    /\ p.ok => Pos(p.c) = RecordEnd(rec)
    ]_vars

\* C39: blob() was called after the first of two or more fields and refused;
\* the record has a blob
C39_Witness ==
    /\ FieldsUnread
    /\ last.op = "blob"
    /\ last.res.err = "UnexpectedOperand"
    /\ last.pre = cur
    /\ it.ops.state >= 1
    /\ it.ops.abbrev.payload.k = "Blob"
    /\ last.res.operand = it.ops.abbrev.fields[it.ops.state + 1]

=============================================================================
